---- MODULE Spec2Model ----
(***************************************************************************)
(* State-machine model of the sponsorship-management backend               *)
(* (apps/backend/app): the four relational tables, the credential each     *)
(* client holds, and one action per request handler.  Every handler is     *)
(* split into an outcome operator (its chain of checks, in source order)   *)
(* and an action that applies the handler's writes when the outcome is     *)
(* "ok".  HTTP outcomes are named after the error taxonomy:                *)
(*   401 -> Unauthenticated, 403 -> Forbidden, 404 -> NotFound,            *)
(*   400 duplicate -> Conflict, 400 missing relationship/filter ->         *)
(*   InvalidState, 400 password -> ValidationError, 400 own account ->     *)
(*   SelfDeletion, unhandled database exception (500) -> DatabaseError.    *)
(***************************************************************************)
EXTENDS Integers, Sequences, FiniteSets, Bags, TLC

VARIABLES users, sponsorships, payments, reports, nextUserId, inflight, last

tables == <<users, sponsorships, payments, reports>>
vars == <<users, sponsorships, payments, reports, nextUserId, inflight, last>>

(* ------------------------------ bounds -------------------------------- *)
\* the user ids the user handlers may allocate under SpecUsers
MaxUsers == 2
\* the largest id of each of the other tables
MaxSponsorships == 2
MaxPayments == 2
MaxReports == 1
\* requests that may stand between their checks and their write under SpecConc
MaxInflight == 2
\* pagination: rows of the table a query filters, page numbers, page sizes
MaxRows == 4
MaxPage == 4
MaxPageSize == 3

(* ------------------------------ values -------------------------------- *)
ADMIN == "admin"
SPONSOR == "sponsor"
CHILD == "child"
UserRole == {ADMIN, SPONSOR, CHILD}

\* Optional[...] values: None is the empty sequence, a value v is <<v>>
None == <<>>
Some(v) == <<v>>
IsNone(x) == x = <<>>
\* Python truthiness of an Optional[int] / Optional[str]
TruthyInt(x) == x # <<>> /\ x[1] # 0
TruthyStr(x) == x # <<>> /\ x[1] # ""

(* --------------------------- passwords -------------------------------- *)
Lower == {"a", "b", "c", "e", "s", "t"}
Upper == {"A", "T"}
Digit == {"1", "2", "3", "4"}
Special == {"!", "@"}
Space == {" "}

\* users.py: password_pattern, lookaheads plus [^\s]{8,64}$ under re.match:
\* "$" also matches just before one trailing newline
PasswordMinLen == 8
PasswordMaxLen == 64
Newline == {"\n"}
HasChar(pw, class) == \E i \in 1..Len(pw) : pw[i] \in class
password_pattern(pw) ==
    LET line == IF Len(pw) > 0 /\ pw[Len(pw)] \in Newline
                THEN SubSeq(pw, 1, Len(pw) - 1) ELSE pw
    IN /\ HasChar(line, Lower)
       /\ HasChar(line, Upper)
       /\ HasChar(line, Digit)
       /\ HasChar(line, Special)
       /\ ~HasChar(line, Space \cup Newline)
       /\ Len(line) >= PasswordMinLen
       /\ Len(line) <= PasswordMaxLen

\* bcrypt is modelled as an injective tagging of the plain text
hash_password(pw) == <<"bcrypt", pw>>
verify_password(pw, hashed) == hashed = <<"bcrypt", pw>>

StrongPassword == <<"T", "e", "s", "t", "1", "2", "3", "4", "!">>
OtherStrongPassword == <<"A", "b", "c", "1", "2", "3", "4", "@">>
WeakPassword == <<"a", "b", "c">>
NewlinePassword == StrongPassword \o <<"\n">>

(* ------------------------------ helpers ------------------------------- *)
Exists(table, id) == id \in DOMAIN table
Without(table, id) == [i \in (DOMAIN table) \ {id} |-> table[i]]
With(table, id, row) == [i \in (DOMAIN table) \cup {id} |-> IF i = id THEN row ELSE table[i]]
Rows(table) == {table[i] : i \in DOMAIN table}
\* the id an insert is given: one past the largest id of the table
NextId(table) ==
    IF DOMAIN table = {} THEN 1
    ELSE 1 + CHOOSE m \in DOMAIN table : \A i \in DOMAIN table : i <= m

\* helpers.py: is_admin
\* a role check that only turns children away
is_not_child(user) == user.role # CHILD
is_admin(user) == user.role = ADMIN

\* a relationship check that finds every pair linked
is_sponsor_of_anyone(sponsor_id, child_id) == TRUE
\* helpers.py: is_sponsor_of_child
is_sponsor_of_child(sponsor_id, child_id) ==
    \E i \in DOMAIN sponsorships :
        sponsorships[i].sponsor_id = sponsor_id /\ sponsorships[i].child_id = child_id

\* db.query(User).filter(User.id == id, User.role == role).first()
UserWithRole(id, role) == Exists(users, id) /\ users[id].role = role

(* ---------------------------- credentials ----------------------------- *)
\* security.py: the token payload {id, role} (the username is not modelled).
\* Tokens are signed and stateless and stay valid for seven days, so a token
\* may be outstanding for every id that was ever allocated, with any role.
NoToken == "none"
\* the request carries no token, or one whose payload has no id
NoCredential == [id |-> 0, role |-> NoToken]
Credentials ==
    {[id |-> i, role |-> r] : i \in 1..(nextUserId - 1), r \in UserRole}
        \cup {NoCredential}

\* security.py: get_current_user -- TRUE when the dependency returns a payload
get_current_user(c) == c.id # 0

\* the stored role of the principal, for the record of the request
Anonymous == "anonymous"
Deleted == "deleted"
StoredRole(c) ==
    IF ~get_current_user(c) THEN Anonymous
    ELSE IF Exists(users, c.id) THEN users[c.id].role ELSE Deleted

\* the record of the latest request: handler, what the principal's credential
\* resolves to when the request runs, outcome, whether any table
\* changed, and by how many rows each table grew
Respond(op, c, out) ==
    last' = [op |-> op, principal |-> StoredRole(c), out |-> out,
             changed |-> (tables' # tables),
             dUsers |-> Cardinality(DOMAIN users') - Cardinality(DOMAIN users),
             dSponsorships |-> Cardinality(DOMAIN sponsorships')
                                 - Cardinality(DOMAIN sponsorships),
             dPayments |-> Cardinality(DOMAIN payments') - Cardinality(DOMAIN payments),
             dReports |-> Cardinality(DOMAIN reports') - Cardinality(DOMAIN reports)]

(* ============================ api/auth.py ============================== *)
\* create_token: login by username (here the id of the row that holds it) and
\* password
create_token_outcome(id, password) ==
    IF ~Exists(users, id) THEN "NotFound"
    ELSE IF ~verify_password(password, users[id].hashed_password) THEN "Unauthenticated"
    ELSE "ok"

\* the token is a signed payload handed to the client: the server stores nothing
create_token(id, password) ==
    /\ UNCHANGED <<tables, nextUserId, inflight>>
    /\ Respond("create_token", NoCredential, create_token_outcome(id, password))

(* ============================ api/users.py ============================= *)
\* (User.username == username) | (User.email == email): SQLAlchemy renders a
\* comparison with None as IS NULL, so an absent email matches a NULL email
existing_user(data) ==
    \E i \in DOMAIN users :
        users[i].username = data.username \/ users[i].email = data.email

\* the handler with the duplicate query ahead of the role check
create_user_duplicate_first(c, data) ==
    IF ~get_current_user(c) THEN "Unauthenticated"
    ELSE IF ~Exists(users, c.id) THEN "NotFound"
    ELSE IF existing_user(data) THEN "Conflict"
    ELSE IF ~is_admin(users[c.id]) THEN "Forbidden"
    ELSE IF ~password_pattern(data.password) THEN "ValidationError"
    ELSE "ok"

\* the handler with the password pattern ahead of the duplicate query
create_user_password_first(c, data) ==
    IF ~get_current_user(c) THEN "Unauthenticated"
    ELSE IF ~Exists(users, c.id) THEN "NotFound"
    ELSE IF ~is_admin(users[c.id]) THEN "Forbidden"
    ELSE IF ~password_pattern(data.password) THEN "ValidationError"
    ELSE IF existing_user(data) THEN "Conflict"
    ELSE "ok"

create_user_outcome(c, data) ==
    IF ~get_current_user(c) THEN "Unauthenticated"
    ELSE IF ~Exists(users, c.id) THEN "NotFound"
    ELSE IF ~is_admin(users[c.id]) THEN "Forbidden"
    ELSE IF existing_user(data) THEN "Conflict"
    ELSE IF ~password_pattern(data.password) THEN "ValidationError"
    ELSE "ok"

created_user(data) ==
    [role |-> data.role, username |-> data.username, email |-> data.email,
     hashed_password |-> hash_password(data.password)]

create_user(c, data) ==
    LET out == create_user_outcome(c, data) IN
    /\ IF out = "ok"
          THEN /\ users' = With(users, nextUserId, created_user(data))
               /\ nextUserId' = nextUserId + 1
          ELSE UNCHANGED <<users, nextUserId>>
    /\ UNCHANGED <<sponsorships, payments, reports, inflight>>
    /\ Respond("create_user", c, out)

\* read_logged_in_user: GET /users/me returns the principal's own row
read_logged_in_user_outcome(c) ==
    IF ~get_current_user(c) THEN "Unauthenticated"
    ELSE IF ~Exists(users, c.id) THEN "NotFound"
    ELSE "ok"

read_logged_in_user(c) ==
    /\ UNCHANGED <<tables, nextUserId, inflight>>
    /\ Respond("read_logged_in_user", c, read_logged_in_user_outcome(c))

\* read_user: GET /users/{user_id}; the response is the outcome and the ids
\* of the User records it carries
read_user_response(c, user_id) ==
    IF ~get_current_user(c) THEN [out |-> "Unauthenticated", users |-> <<>>]
    ELSE IF ~Exists(users, c.id) THEN [out |-> "NotFound", users |-> <<>>]
    ELSE IF ~Exists(users, user_id) THEN [out |-> "NotFound", users |-> <<>>]
    ELSE IF is_admin(users[user_id]) /\ ~is_admin(users[c.id])
         THEN [out |-> "Forbidden", users |-> <<>>]
    ELSE [out |-> "ok", users |-> <<user_id>>]

read_user(c, user_id) ==
    /\ UNCHANGED <<tables, nextUserId, inflight>>
    /\ Respond("read_user", c, read_user_response(c, user_id).out)

\* update_user: "if not user" after get_user_or_404 returned the row
not_user(c) == ~Exists(users, c.id)

\* an update that leaves the role of the row alone
updated_user_same_role(row, data) ==
    [role |-> row.role, username |-> data.username,
     email |-> IF IsNone(data.email) THEN row.email ELSE data.email,
     hashed_password |-> hash_password(data.password)]
\* the loop over vars(user_data): every non-None field is copied
updated_user(row, data) ==
    [role |-> data.role, username |-> data.username,
     email |-> IF IsNone(data.email) THEN row.email ELSE data.email,
     hashed_password |-> hash_password(data.password)]

\* user_model.py: username and email are unique columns (NULL emails may repeat)
users_unique(table) ==
    \A i, j \in DOMAIN table :
        i # j => /\ table[i].username # table[j].username
                 /\ (table[i].email = None \/ table[i].email # table[j].email)

\* the handler without the lookup of the principal
update_user_unknown_principal(c, user_id, data) ==
    IF ~get_current_user(c) THEN "Unauthenticated"
    ELSE IF ~Exists(users, user_id) THEN "NotFound"
    ELSE IF ~users_unique(With(users, user_id, updated_user(users[user_id], data)))
         THEN "DatabaseError"
    ELSE "ok"

update_user_outcome(c, user_id, data) ==
    IF ~get_current_user(c) THEN "Unauthenticated"
    ELSE IF ~Exists(users, c.id) THEN "NotFound"
    ELSE IF not_user(c) THEN "Forbidden"
    ELSE IF ~Exists(users, user_id) THEN "NotFound"
    ELSE IF ~users_unique(With(users, user_id, updated_user(users[user_id], data)))
         THEN "DatabaseError"
    ELSE "ok"

update_user(c, user_id, data) ==
    LET out == update_user_outcome(c, user_id, data) IN
    /\ users' = IF out = "ok"
                   THEN With(users, user_id, updated_user(users[user_id], data))
                   ELSE users
    /\ UNCHANGED <<sponsorships, payments, reports, nextUserId, inflight>>
    /\ Respond("update_user", c, out)

\* the handler without the comparison of the two ids
delete_user_own_account(c, user_id) ==
    IF ~get_current_user(c) THEN "Unauthenticated"
    ELSE IF ~Exists(users, user_id) THEN "NotFound"
    ELSE IF ~Exists(users, c.id) THEN "NotFound"
    ELSE IF ~is_admin(users[c.id]) THEN "Forbidden"
    ELSE "ok"

\* the handler with the admin check made on the role of the token payload
delete_user_token_role(c, user_id) ==
    IF ~get_current_user(c) THEN "Unauthenticated"
    ELSE IF ~Exists(users, user_id) THEN "NotFound"
    ELSE IF ~Exists(users, c.id) THEN "NotFound"
    ELSE IF c.role # ADMIN THEN "Forbidden"
    ELSE IF c.id = user_id THEN "SelfDeletion"
    ELSE "ok"

delete_user_outcome(c, user_id) ==
    IF ~get_current_user(c) THEN "Unauthenticated"
    ELSE IF ~Exists(users, user_id) THEN "NotFound"
    ELSE IF ~Exists(users, c.id) THEN "NotFound"
    ELSE IF ~is_admin(users[c.id]) THEN "Forbidden"
    ELSE IF c.id = user_id THEN "SelfDeletion"
    ELSE "ok"

\* a cascade that follows only the sponsor side of the relationships
cascade_sponsor_side(table, user_id) ==
    [i \in {j \in DOMAIN table : table[j].sponsor_id # user_id} |-> table[i]]
\* user_model.py: cascade="all, delete-orphan" on the five relationships
cascade(table, user_id) ==
    [i \in {j \in DOMAIN table :
               table[j].sponsor_id # user_id /\ table[j].child_id # user_id}
        |-> table[i]]
cascade_reports(table, user_id) ==
    [i \in {j \in DOMAIN table : table[j].child_id # user_id} |-> table[i]]

delete_user(c, user_id) ==
    LET out == delete_user_outcome(c, user_id) IN
    /\ IF out = "ok"
          THEN /\ users' = Without(users, user_id)
               /\ sponsorships' = cascade(sponsorships, user_id)
               /\ payments' = cascade(payments, user_id)
               /\ reports' = cascade_reports(reports, user_id)
          ELSE UNCHANGED tables
    /\ UNCHANGED <<nextUserId, inflight>>
    /\ Respond("delete_user", c, out)

(* ========================= api/sponsorships.py ========================= *)
\* a duplicate query that only sees active sponsorships
duplicate_active(data) ==
    \E i \in DOMAIN sponsorships :
        /\ sponsorships[i].child_id = data.child_id
        /\ sponsorships[i].sponsor_id = data.sponsor_id
        /\ sponsorships[i].status = "active"
duplicate(data) ==
    \E i \in DOMAIN sponsorships :
        /\ sponsorships[i].child_id = data.child_id
        /\ sponsorships[i].sponsor_id = data.sponsor_id

create_sponsorship_outcome(c, data) ==
    IF ~get_current_user(c) THEN "Unauthenticated"
    ELSE IF ~Exists(users, c.id) THEN "NotFound"
    ELSE IF ~is_admin(users[c.id]) THEN "Forbidden"
    ELSE IF ~Exists(users, data.child_id) THEN "NotFound"
    ELSE IF ~UserWithRole(data.sponsor_id, SPONSOR) THEN "NotFound"
    ELSE IF duplicate(data) THEN "Conflict"
    ELSE "ok"

create_sponsorship(c, data) ==
    LET out == create_sponsorship_outcome(c, data) IN
    /\ sponsorships' =
         IF out = "ok"
           THEN With(sponsorships, NextId(sponsorships),
                     [sponsor_id |-> data.sponsor_id, child_id |-> data.child_id,
                      start_date |-> data.start_date, status |-> data.status])
           ELSE sponsorships
    /\ UNCHANGED <<users, payments, reports, nextUserId, inflight>>
    /\ Respond("create_sponsorship", c, out)

update_sponsorship_outcome(c, sponsorship_id) ==
    IF ~get_current_user(c) THEN "Unauthenticated"
    ELSE IF ~Exists(users, c.id) THEN "NotFound"
    ELSE IF ~is_admin(users[c.id]) THEN "Forbidden"
    ELSE IF ~Exists(sponsorships, sponsorship_id) THEN "NotFound"
    ELSE "ok"

\* an update that stamps the start date when the request names none
updated_sponsorship_stamped(row, data) ==
    [row EXCEPT !.start_date = IF IsNone(data.start_date) THEN "2026-01-01"
                               ELSE data.start_date[1],
                !.status = IF TruthyStr(data.status) THEN data.status[1] ELSE @]
\* "if sponsorship_data.start_date:" (a date is truthy) and
\* "if sponsorship_data.status:" -- None and "" leave the status alone
updated_sponsorship(row, data) ==
    [row EXCEPT !.start_date = IF IsNone(data.start_date) THEN @
                               ELSE data.start_date[1],
                !.status = IF TruthyStr(data.status) THEN data.status[1] ELSE @]

update_sponsorship(c, sponsorship_id, data) ==
    LET out == update_sponsorship_outcome(c, sponsorship_id) IN
    /\ sponsorships' =
         IF out = "ok"
           THEN With(sponsorships, sponsorship_id,
                     updated_sponsorship(sponsorships[sponsorship_id], data))
           ELSE sponsorships
    /\ UNCHANGED <<users, payments, reports, nextUserId, inflight>>
    /\ Respond("update_sponsorship", c, out)

delete_sponsorship_outcome(c, sponsorship_id) ==
    IF ~get_current_user(c) THEN "Unauthenticated"
    ELSE IF ~Exists(users, c.id) THEN "NotFound"
    ELSE IF ~is_admin(users[c.id]) THEN "Forbidden"
    ELSE IF ~Exists(sponsorships, sponsorship_id) THEN "NotFound"
    ELSE "ok"

delete_sponsorship(c, sponsorship_id) ==
    LET out == delete_sponsorship_outcome(c, sponsorship_id) IN
    /\ sponsorships' = IF out = "ok" THEN Without(sponsorships, sponsorship_id)
                                     ELSE sponsorships
    /\ UNCHANGED <<users, payments, reports, nextUserId, inflight>>
    /\ Respond("delete_sponsorship", c, out)

(* =========================== utils/helpers.py ========================== *)
\* rows come back in primary-key order: the ids of S as an ascending sequence
RECURSIVE Ascending(_)
Ascending(S) ==
    IF S = {} THEN <<>>
    ELSE LET m == CHOOSE x \in S : \A y \in S : x <= y
         IN <<m>> \o Ascending(S \ {m})

Min(a, b) == IF a <= b THEN a ELSE b

\* a pagination whose page count is rounded down
paginate_query_floor(query, page, page_size) ==
    LET total_count == Len(query)
        offset == (page - 1) * page_size
    IN [results |-> SubSeq(query, offset + 1, Min(offset + page_size, total_count)),
        total_count |-> total_count,
        total_pages |-> total_count \div page_size]
\* a pagination that answers a page after the last with the last page
paginate_query_last_page(query, page, page_size) ==
    LET total_count == Len(query)
        total_pages == (total_count + page_size - 1) \div page_size
        offset == (Min(page, IF total_pages = 0 THEN 1 ELSE total_pages) - 1) * page_size
    IN [results |-> SubSeq(query, offset + 1, Min(offset + page_size, total_count)),
        total_count |-> total_count,
        total_pages |-> total_pages]
\* a pagination whose pages after the first start one row early
paginate_query_overlap(query, page, page_size) ==
    LET total_count == Len(query)
        offset == (page - 1) * page_size - (IF page > 1 THEN 1 ELSE 0)
    IN [results |-> SubSeq(query, offset + 1, Min(offset + page_size, total_count)),
        total_count |-> total_count,
        total_pages |-> (total_count + page_size - 1) \div page_size]
\* paginate_query: count, ceiling division, offset and limit
paginate_query(query, page, page_size) ==
    LET total_count == Len(query)
        offset == (page - 1) * page_size
    IN [results |-> SubSeq(query, offset + 1, Min(offset + page_size, total_count)),
        total_count |-> total_count,
        total_pages |-> (total_count + page_size - 1) \div page_size]

\* Query.offset(offset).limit(limit).all()
OffsetLimit(query, offset, limit) ==
    SubSeq(query, offset + 1, Min(offset + limit, Len(query)))

(* ====================== api/sponsorships.py (reads) ==================== *)
\* db.query(User).join(Sponsorship, User.id == Sponsorship.child_id)
\*   .filter(Sponsorship.sponsor_id == sponsor_id): one User per sponsorship
sponsored_children(sponsor_id) ==
    LET rows == Ascending({i \in DOMAIN sponsorships :
                              sponsorships[i].sponsor_id = sponsor_id})
    IN [k \in 1..Len(rows) |-> sponsorships[rows[k]].child_id]

\* get_sponsored_children: GET /sponsorships/{sponsor_id}
get_sponsored_children_response(c, sponsor_id, page, page_size) ==
    IF ~get_current_user(c) THEN [out |-> "Unauthenticated", users |-> <<>>]
    ELSE IF ~Exists(users, c.id) THEN [out |-> "NotFound", users |-> <<>>]
    ELSE IF ~UserWithRole(sponsor_id, SPONSOR)
         THEN [out |-> "NotFound", users |-> <<>>]
    ELSE IF Len(sponsored_children(sponsor_id)) = 0
         THEN [out |-> "NotFound", users |-> <<>>]
    ELSE [out |-> "ok",
          users |-> OffsetLimit(sponsored_children(sponsor_id),
                                (page - 1) * page_size, page_size)]

get_sponsored_children(c, sponsor_id, page, page_size) ==
    /\ UNCHANGED <<tables, nextUserId, inflight>>
    /\ Respond("get_sponsored_children", c,
               get_sponsored_children_response(c, sponsor_id, page, page_size).out)

\* db.query(Sponsorship).filter(Sponsorship.child_id == child_id).first():
\* the query has no ORDER BY, so the row it returns is any of the child's
\* sponsorships; 0 stands for None
first_sponsorship(child_id) ==
    LET rows == {i \in DOMAIN sponsorships : sponsorships[i].child_id = child_id}
    IN IF rows = {} THEN {0} ELSE rows

\* get_sponsor_of_child: GET /sponsorships?child_id=, with the row that
\* first() returned
get_sponsor_of_child_response(c, child_id, sponsorship) ==
    IF ~get_current_user(c) THEN [out |-> "Unauthenticated", users |-> <<>>]
    ELSE IF ~Exists(users, c.id) THEN [out |-> "NotFound", users |-> <<>>]
    ELSE IF ~UserWithRole(child_id, CHILD) THEN [out |-> "NotFound", users |-> <<>>]
    ELSE IF sponsorship = 0 THEN [out |-> "NotFound", users |-> <<>>]
    ELSE IF ~Exists(users, sponsorships[sponsorship].sponsor_id)
         THEN [out |-> "NotFound", users |-> <<>>]
    ELSE [out |-> "ok", users |-> <<sponsorships[sponsorship].sponsor_id>>]

get_sponsor_of_child(c, child_id) ==
    /\ UNCHANGED <<tables, nextUserId, inflight>>
    /\ \E sponsorship \in first_sponsorship(child_id) :
          Respond("get_sponsor_of_child", c,
                  get_sponsor_of_child_response(c, child_id, sponsorship).out)

(* ============================ api/sponsors.py ========================== *)
\* get_sponsors_children: GET /sponsors/children, the children of the
\* principal's own sponsorships
get_sponsors_children_response(c, page, page_size) ==
    IF ~get_current_user(c) THEN [out |-> "Unauthenticated", users |-> <<>>]
    ELSE IF ~Exists(users, c.id) THEN [out |-> "NotFound", users |-> <<>>]
    ELSE IF Len(sponsored_children(c.id)) = 0
         THEN [out |-> "NotFound", users |-> <<>>]
    ELSE [out |-> "ok",
          users |-> OffsetLimit(sponsored_children(c.id),
                                (page - 1) * page_size, page_size)]

get_sponsors_children(c, page, page_size) ==
    /\ UNCHANGED <<tables, nextUserId, inflight>>
    /\ Respond("get_sponsors_children", c,
               get_sponsors_children_response(c, page, page_size).out)

\* get_child_details: GET /sponsors/children/{id}, with the row that first()
\* returned.  The child's date_of_birth and gender are taken to be filled in.
get_child_details_outcome(c, id, sponsorship) ==
    IF ~get_current_user(c) THEN "Unauthenticated"
    ELSE IF ~Exists(users, c.id) THEN "NotFound"
    ELSE IF ~UserWithRole(id, CHILD) THEN "NotFound"
    ELSE IF ~is_admin(users[c.id])
              /\ (sponsorship = 0 \/ sponsorships[sponsorship].sponsor_id # c.id)
         THEN "Forbidden"
    ELSE "ok"

get_child_details(c, id) ==
    /\ UNCHANGED <<tables, nextUserId, inflight>>
    /\ \E sponsorship \in first_sponsorship(id) :
          Respond("get_child_details", c, get_child_details_outcome(c, id, sponsorship))

(* ============================ api/payments.py ========================== *)
\* a sponsorship query that forgets the status
sponsorship_of_any_status(data) ==
    \E i \in DOMAIN sponsorships :
        /\ sponsorships[i].sponsor_id = data.sponsor_id
        /\ sponsorships[i].child_id = data.child_id
active_sponsorship(data) ==
    \E i \in DOMAIN sponsorships :
        /\ sponsorships[i].sponsor_id = data.sponsor_id
        /\ sponsorships[i].child_id = data.child_id
        /\ sponsorships[i].status = "active"

existing_payment(transaction_id) ==
    \E i \in DOMAIN payments : payments[i].transaction_id = transaction_id

\* the checks of create_payment, up to the insert
create_payment_checks(c, data) ==
    IF ~get_current_user(c) THEN "Unauthenticated"
    ELSE IF ~Exists(users, c.id) THEN "NotFound"
    ELSE IF ~is_admin(users[c.id]) /\ c.id # data.sponsor_id THEN "Forbidden"
    ELSE IF ~UserWithRole(data.sponsor_id, SPONSOR) THEN "NotFound"
    ELSE IF ~UserWithRole(data.child_id, CHILD) THEN "NotFound"
    ELSE IF ~active_sponsorship(data) THEN "InvalidState"
    ELSE IF existing_payment(data.transaction_id) THEN "Conflict"
    ELSE "ok"

\* the column without unique=True
transaction_id_not_unique(table) == TRUE

\* payment_model.py: transaction_id = Column(String, unique=True, nullable=False)
transaction_id_unique(table) ==
    \A i, j \in DOMAIN table :
        i # j => table[i].transaction_id # table[j].transaction_id

\* payment_model.py: the two foreign keys into users
payment_foreign_keys(row) == Exists(users, row.sponsor_id) /\ Exists(users, row.child_id)

new_payment(data) ==
    [sponsor_id |-> data.sponsor_id, child_id |-> data.child_id,
     amount |-> data.amount, transaction_id |-> data.transaction_id,
     status |-> data.status]

\* db.add(new_payment); db.commit(): the insert, refused by a violated constraint
create_payment_commit(data) ==
    IF /\ transaction_id_unique(With(payments, NextId(payments), new_payment(data)))
       /\ payment_foreign_keys(new_payment(data))
      THEN "ok" ELSE "DatabaseError"

create_payment_outcome(c, data) ==
    IF create_payment_checks(c, data) # "ok" THEN create_payment_checks(c, data)
    ELSE create_payment_commit(data)

create_payment(c, data) ==
    LET out == create_payment_outcome(c, data) IN
    /\ payments' = IF out = "ok"
                      THEN With(payments, NextId(payments), new_payment(data))
                      ELSE payments
    /\ UNCHANGED <<users, sponsorships, reports, nextUserId, inflight>>
    /\ Respond("create_payment", c, out)

\* the payments a get_payments request selects, and its outcome before paging
sponsor_ids(child_id) ==
    {sponsorships[i].sponsor_id :
        i \in {j \in DOMAIN sponsorships : sponsorships[j].child_id = child_id}}

get_payments_query(sponsor_id, child_id) ==
    Ascending({i \in DOMAIN payments :
        /\ TruthyInt(sponsor_id) => payments[i].sponsor_id = sponsor_id[1]
        /\ TruthyInt(child_id) => payments[i].child_id = child_id[1]})

get_payments_checks(c, sponsor_id, child_id) ==
    IF ~get_current_user(c) THEN "Unauthenticated"
    ELSE IF ~Exists(users, c.id) THEN "NotFound"
    ELSE IF IsNone(sponsor_id) /\ IsNone(child_id) THEN "InvalidState"
    ELSE IF TruthyInt(sponsor_id) /\ ~UserWithRole(sponsor_id[1], SPONSOR)
         THEN "NotFound"
    ELSE IF TruthyInt(sponsor_id) /\ ~is_admin(users[c.id]) /\ c.id # sponsor_id[1]
         THEN "Forbidden"
    ELSE IF TruthyInt(child_id) /\ ~UserWithRole(child_id[1], CHILD) THEN "NotFound"
    ELSE IF TruthyInt(child_id) /\ ~is_admin(users[c.id])
              /\ c.id \notin sponsor_ids(child_id[1])
         THEN "Forbidden"
    ELSE IF TruthyInt(child_id) /\ TruthyInt(sponsor_id)
              /\ ~is_sponsor_of_child(sponsor_id[1], child_id[1])
         THEN "InvalidState"
    ELSE "ok"

\* the response: the outcome and the ids of the payments of the page
get_payments_response(c, sponsor_id, child_id, page, page_size) ==
    LET out == get_payments_checks(c, sponsor_id, child_id)
        pagination == paginate_query(get_payments_query(sponsor_id, child_id),
                                     page, page_size)
    IN IF out # "ok" THEN [out |-> out, payments |-> <<>>]
       ELSE IF pagination.results = <<>> THEN [out |-> "NotFound", payments |-> <<>>]
       ELSE [out |-> "ok", payments |-> pagination.results]

get_payments(c, sponsor_id, child_id, page, page_size) ==
    /\ UNCHANGED <<tables, nextUserId, inflight>>
    /\ Respond("get_payments", c, get_payments_response(c, sponsor_id, child_id, page, page_size).out)

\* "if payment_data.transaction_id:" then the query excluding the payment itself
transaction_id_taken(payment_id, data) ==
    /\ TruthyStr(data.transaction_id)
    /\ \E i \in DOMAIN payments :
          payments[i].transaction_id = data.transaction_id[1] /\ i # payment_id

update_payment_checks(c, payment_id, data) ==
    IF ~get_current_user(c) THEN "Unauthenticated"
    ELSE IF ~Exists(users, c.id) THEN "NotFound"
    ELSE IF ~is_admin(users[c.id]) THEN "Forbidden"
    ELSE IF ~Exists(payments, payment_id) THEN "NotFound"
    ELSE IF transaction_id_taken(payment_id, data) THEN "Conflict"
    ELSE "ok"

\* the loop over update_fields: every field whose value is not None is set
updated_payment(row, data) ==
    [row EXCEPT !.amount = IF IsNone(data.amount) THEN @ ELSE data.amount[1],
                !.transaction_id = IF IsNone(data.transaction_id) THEN @
                                   ELSE data.transaction_id[1],
                !.status = IF IsNone(data.status) THEN @ ELSE data.status[1]]

\* db.commit(): the UPDATE, refused when the unique index is violated
update_payment_commit(payment_id, row) ==
    IF transaction_id_unique(With(payments, payment_id, row))
      THEN "ok" ELSE "DatabaseError"

update_payment_outcome(c, payment_id, data) ==
    IF update_payment_checks(c, payment_id, data) # "ok"
      THEN update_payment_checks(c, payment_id, data)
      ELSE update_payment_commit(payment_id, updated_payment(payments[payment_id], data))

update_payment(c, payment_id, data) ==
    LET out == update_payment_outcome(c, payment_id, data) IN
    /\ payments' = IF out = "ok"
                      THEN With(payments, payment_id,
                                updated_payment(payments[payment_id], data))
                      ELSE payments
    /\ UNCHANGED <<users, sponsorships, reports, nextUserId, inflight>>
    /\ Respond("update_payment", c, out)

delete_payment_outcome(c, payment_id) ==
    IF ~get_current_user(c) THEN "Unauthenticated"
    ELSE IF ~Exists(users, c.id) THEN "NotFound"
    ELSE IF ~is_admin(users[c.id]) THEN "Forbidden"
    ELSE IF ~Exists(payments, payment_id) THEN "NotFound"
    ELSE "ok"

delete_payment(c, payment_id) ==
    LET out == delete_payment_outcome(c, payment_id) IN
    /\ payments' = IF out = "ok" THEN Without(payments, payment_id) ELSE payments
    /\ UNCHANGED <<users, sponsorships, reports, nextUserId, inflight>>
    /\ Respond("delete_payment", c, out)

(* ========================= api/child_reports.py ======================== *)
create_child_report_outcome(c, data) ==
    IF ~get_current_user(c) THEN "Unauthenticated"
    ELSE IF ~Exists(users, c.id) THEN "NotFound"
    ELSE IF ~is_admin(users[c.id]) THEN "Forbidden"
    ELSE IF ~UserWithRole(data.child_id, CHILD) THEN "NotFound"
    ELSE "ok"

\* child_report_model.py: status = Column(Enum("unread", "read", ...)), written
\* from a schema field that is any str.  A status outside the enumeration
\* passes the type (validate_strings is off) and meets the store: one with a
\* native enumeration refuses the statement ("DataError", nothing stored), one
\* that keeps the column as text stores it, and db.refresh then fails to load
\* the row ("LookupError", the row stays committed).  Both answer 500.
ReportStatus == {"unread", "read"}
report_status_commit(status) ==
    IF status \in ReportStatus THEN {"ok"} ELSE {"DataError", "LookupError"}

create_child_report(c, data) ==
    LET out == create_child_report_outcome(c, data) IN
    \E commit \in IF out = "ok" THEN report_status_commit(data.status) ELSE {out} :
        /\ reports' = IF commit \in {"ok", "LookupError"}
                         THEN With(reports, NextId(reports),
                                   [child_id |-> data.child_id,
                                    details |-> data.details, status |-> data.status])
                         ELSE reports
        /\ UNCHANGED <<users, sponsorships, payments, nextUserId, inflight>>
        /\ Respond("create_child_report", c,
                   IF commit \in {"DataError", "LookupError"} THEN "DatabaseError"
                   ELSE commit)

update_child_report_outcome(c, report_id) ==
    IF ~get_current_user(c) THEN "Unauthenticated"
    ELSE IF ~Exists(users, c.id) THEN "NotFound"
    ELSE IF ~is_admin(users[c.id]) THEN "Forbidden"
    ELSE IF ~Exists(reports, report_id) THEN "NotFound"
    ELSE "ok"

\* the loop over update_fields: every field whose value is not None is set
\* (details stands for report_date and report_type as well)
updated_child_report(row, data) ==
    [row EXCEPT !.details = IF IsNone(data.details) THEN @ ELSE data.details[1],
                !.status = IF IsNone(data.status) THEN @ ELSE data.status[1]]

update_child_report(c, report_id, data) ==
    LET out == update_child_report_outcome(c, report_id) IN
    \E commit \in IF out = "ok" /\ ~IsNone(data.status)
                  THEN report_status_commit(data.status[1]) ELSE {out} :
        /\ reports' = IF commit \in {"ok", "LookupError"}
                         THEN With(reports, report_id,
                                   updated_child_report(reports[report_id], data))
                         ELSE reports
        /\ UNCHANGED <<users, sponsorships, payments, nextUserId, inflight>>
        /\ Respond("update_child_report", c,
                   IF commit \in {"DataError", "LookupError"} THEN "DatabaseError"
                   ELSE commit)

delete_child_report_outcome(c, report_id) ==
    IF ~get_current_user(c) THEN "Unauthenticated"
    ELSE IF ~Exists(users, c.id) THEN "NotFound"
    ELSE IF ~is_admin(users[c.id]) THEN "Forbidden"
    ELSE IF ~Exists(reports, report_id) THEN "NotFound"
    ELSE "ok"

delete_child_report(c, report_id) ==
    LET out == delete_child_report_outcome(c, report_id) IN
    /\ reports' = IF out = "ok" THEN Without(reports, report_id) ELSE reports
    /\ UNCHANGED <<users, sponsorships, payments, nextUserId, inflight>>
    /\ Respond("delete_child_report", c, out)

mark_report_as_read_outcome(c, report_id) ==
    IF ~get_current_user(c) THEN "Unauthenticated"
    ELSE IF ~Exists(users, c.id) THEN "NotFound"
    ELSE IF ~Exists(reports, report_id) THEN "NotFound"
    ELSE IF ~UserWithRole(reports[report_id].child_id, CHILD) THEN "NotFound"
    ELSE IF ~is_admin(users[c.id])
              /\ c.id \notin sponsor_ids(reports[report_id].child_id)
         THEN "Forbidden"
    ELSE "ok"

\* the handler with the assignment and the commit ahead of the sponsor check
mark_report_as_read_early(c, report_id) ==
    LET out == mark_report_as_read_outcome(c, report_id) IN
    /\ reports' = IF out \in {"ok", "Forbidden"}
                     THEN [reports EXCEPT ![report_id].status = "read"]
                     ELSE reports
    /\ UNCHANGED <<users, sponsorships, payments, nextUserId, inflight>>
    /\ Respond("mark_report_as_read", c, out)

mark_report_as_read(c, report_id) ==
    LET out == mark_report_as_read_outcome(c, report_id) IN
    /\ reports' = IF out = "ok" THEN [reports EXCEPT ![report_id].status = "read"]
                                ELSE reports
    /\ UNCHANGED <<users, sponsorships, payments, nextUserId, inflight>>
    /\ Respond("mark_report_as_read", c, out)

\* the reports a get_reports request selects: with a child_id those of the
\* child, with a sponsor_id alone those of the sponsor's children
child_ids(sponsor_id) ==
    {sponsorships[i].child_id :
        i \in {j \in DOMAIN sponsorships : sponsorships[j].sponsor_id = sponsor_id}}

get_reports_query(sponsor_id, child_id) ==
    Ascending({i \in DOMAIN reports :
        IF TruthyInt(child_id) THEN reports[i].child_id = child_id[1]
        ELSE reports[i].child_id \in child_ids(sponsor_id[1])})

\* get_reports before paging: GET /reports
get_reports_checks(c, sponsor_id, child_id) ==
    IF ~get_current_user(c) THEN "Unauthenticated"
    ELSE IF ~Exists(users, c.id) THEN "NotFound"
    ELSE IF ~TruthyInt(child_id) /\ ~TruthyInt(sponsor_id) THEN "InvalidState"
    ELSE IF TruthyInt(child_id) /\ TruthyInt(sponsor_id) THEN
        IF ~UserWithRole(child_id[1], CHILD) THEN "NotFound"
        ELSE IF ~UserWithRole(sponsor_id[1], SPONSOR) THEN "NotFound"
        ELSE IF ~is_sponsor_of_child(sponsor_id[1], child_id[1]) THEN "InvalidState"
        ELSE IF ~is_admin(users[c.id]) /\ c.id # sponsor_id[1] THEN "Forbidden"
        ELSE "ok"
    ELSE IF TruthyInt(child_id) THEN
        IF ~UserWithRole(child_id[1], CHILD) THEN "NotFound"
        ELSE IF ~is_admin(users[c.id]) /\ c.id \notin sponsor_ids(child_id[1])
             THEN "Forbidden"
        ELSE "ok"
    ELSE
        IF ~is_admin(users[c.id]) /\ c.id # sponsor_id[1] THEN "Forbidden"
        ELSE IF ~UserWithRole(sponsor_id[1], SPONSOR) THEN "NotFound"
        ELSE IF child_ids(sponsor_id[1]) = {} THEN "NotFound"
        ELSE "ok"

\* the response: the outcome and the ids of the reports of the page
get_reports_response(c, sponsor_id, child_id, page, page_size) ==
    LET out == get_reports_checks(c, sponsor_id, child_id) IN
    IF out # "ok" THEN [out |-> out, reports |-> <<>>]
    ELSE LET pagination == paginate_query(get_reports_query(sponsor_id, child_id),
                                          page, page_size)
         IN IF pagination.results = <<>> THEN [out |-> "NotFound", reports |-> <<>>]
            ELSE [out |-> "ok", reports |-> pagination.results]

get_reports(c, sponsor_id, child_id, page, page_size) ==
    /\ UNCHANGED <<tables, nextUserId, inflight>>
    /\ Respond("get_reports", c,
               get_reports_response(c, sponsor_id, child_id, page, page_size).out)

(* ============================= api/admin.py ============================ *)
\* a listing that answers an empty page with 404 as get_payments does
admin_listing_not_found(c, query, page, page_size) ==
    IF ~get_current_user(c)
    THEN [out |-> "Unauthenticated", metadata |-> None, rows |-> <<>>]
    ELSE IF ~Exists(users, c.id)
    THEN [out |-> "NotFound", metadata |-> None, rows |-> <<>>]
    ELSE IF ~is_admin(users[c.id])
    THEN [out |-> "Forbidden", metadata |-> None, rows |-> <<>>]
    ELSE LET total == Len(query)
             rows == OffsetLimit(query, (page - 1) * page_size, page_size)
             total_pages == (total + page_size - 1) \div page_size
         IN IF rows = <<>>
            THEN [out |-> "NotFound", metadata |-> None, rows |-> <<>>]
            ELSE [out |-> "ok",
                  metadata |-> Some([page |-> page, page_size |-> page_size,
                                     total |-> total, total_pages |-> total_pages]),
                  rows |-> rows]
\* the body the five listing handlers share: principal, admin check, count,
\* offset and limit, ceiling division; an empty page is answered 200 with
\* data=[] and no pagination fields (metadata None)
admin_listing(c, query, page, page_size) ==
    IF ~get_current_user(c)
    THEN [out |-> "Unauthenticated", metadata |-> None, rows |-> <<>>]
    ELSE IF ~Exists(users, c.id)
    THEN [out |-> "NotFound", metadata |-> None, rows |-> <<>>]
    ELSE IF ~is_admin(users[c.id])
    THEN [out |-> "Forbidden", metadata |-> None, rows |-> <<>>]
    ELSE LET total == Len(query)
             rows == OffsetLimit(query, (page - 1) * page_size, page_size)
             total_pages == (total + page_size - 1) \div page_size
         IN IF rows = <<>>
            THEN [out |-> "ok", metadata |-> None, rows |-> <<>>]
            ELSE [out |-> "ok",
                  metadata |-> Some([page |-> page, page_size |-> page_size,
                                     total |-> total, total_pages |-> total_pages]),
                  rows |-> rows]

\* the queries of the five handlers
all_sponsors == Ascending({i \in DOMAIN users : users[i].role = SPONSOR})
all_children == Ascending({i \in DOMAIN users : users[i].role = CHILD})
all_payments == Ascending(DOMAIN payments)
all_sponsorships == Ascending(DOMAIN sponsorships)
all_child_reports == Ascending(DOMAIN reports)

\* the record of a listing request: what Respond records, and the page asked
\* for and the response body
Listed(op, c, page, page_size, response) ==
    /\ UNCHANGED <<tables, nextUserId, inflight>>
    /\ last' = [op |-> op, principal |-> StoredRole(c), out |-> response.out,
                changed |-> FALSE, dUsers |-> 0, dSponsorships |-> 0,
                dPayments |-> 0, dReports |-> 0,
                page |-> page, page_size |-> page_size,
                metadata |-> response.metadata, rows |-> response.rows]

get_all_sponsors(c, page, page_size) ==
    Listed("get_all_sponsors", c, page, page_size,
           admin_listing(c, all_sponsors, page, page_size))
get_all_children(c, page, page_size) ==
    Listed("get_all_children", c, page, page_size,
           admin_listing(c, all_children, page, page_size))
get_all_payments(c, page, page_size) ==
    Listed("get_all_payments", c, page, page_size,
           admin_listing(c, all_payments, page, page_size))
get_all_sponsorships(c, page, page_size) ==
    Listed("get_all_sponsorships", c, page, page_size,
           admin_listing(c, all_sponsorships, page, page_size))
get_all_child_reports(c, page, page_size) ==
    Listed("get_all_child_reports", c, page, page_size,
           admin_listing(c, all_child_reports, page, page_size))

\* func.sum(Payment.amount): NULL over an empty table, else the sum
RECURSIVE SumOfAmounts(_, _)
SumOfAmounts(table, ids) ==
    IF ids = {} THEN 0
    ELSE LET i == CHOOSE x \in ids : TRUE
         IN table[i].amount + SumOfAmounts(table, ids \ {i})
func_sum(table) ==
    IF DOMAIN table = {} THEN None ELSE Some(SumOfAmounts(table, DOMAIN table))
\* a coalesce that hands its first argument on, NULL included
coalesce_first(x, default) == x
\* func.coalesce(x, default): the scalar is a number (Some) or NULL (None)
coalesce(x, default) == IF IsNone(x) THEN Some(default) ELSE x

\* get_admin_dashboard: the outcome and the statistics of the response
get_admin_dashboard_response(c) ==
    IF ~get_current_user(c) THEN [out |-> "Unauthenticated", stats |-> None]
    ELSE IF ~Exists(users, c.id) THEN [out |-> "NotFound", stats |-> None]
    ELSE IF ~is_admin(users[c.id]) THEN [out |-> "Forbidden", stats |-> None]
    ELSE [out |-> "ok",
          stats |-> Some([total_sponsors |-> Len(all_sponsors),
                          total_children |-> Len(all_children),
                          total_payments |-> Len(all_payments),
                          total_amount |-> coalesce(func_sum(payments), 0)])]

get_admin_dashboard(c) ==
    /\ UNCHANGED <<tables, nextUserId, inflight>>
    /\ last' = [op |-> "get_admin_dashboard", principal |-> StoredRole(c),
                out |-> get_admin_dashboard_response(c).out,
                changed |-> FALSE, dUsers |-> 0, dSponsorships |-> 0,
                dPayments |-> 0, dReports |-> 0,
                stats |-> get_admin_dashboard_response(c).stats]

(* ============================ request inputs =========================== *)
\* tests/conftest.py and tests/utils.py
Usernames == {"janedoe", "johndoe"}
Emails == {None, Some("janedoe@mail.com")}
Passwords == {StrongPassword, WeakPassword}
UserCreate ==
    [role : UserRole, username : Usernames, email : Emails, password : Passwords]

\* ids of the other tables (Path(gt=0)): one more than is ever allocated
SponsorshipIds == 1..(MaxSponsorships + 1)
PaymentIds == 1..(MaxPayments + 1)
ReportIds == 1..(MaxReports + 1)

NoRequest ==
    [op |-> "none", principal |-> Anonymous, out |-> "none", changed |-> FALSE,
     dUsers |-> 0, dSponsorships |-> 0, dPayments |-> 0, dReports |-> 0]
\* the requests of api/payments.py that passed their checks and have not yet
\* written: a bag, since two workers may hold equal requests
NoInflight == EmptyBag

(* ================= SpecUsers: the user handlers and login ============== *)
\* tests/conftest.py: the fixture inserts user 1 with the role the test asks for
InitUsers ==
    /\ \E role \in UserRole :
          users = [i \in {1} |->
                     [role |-> role, username |-> "janedoe",
                      email |-> Some("janedoe@mail.com"),
                      hashed_password |-> hash_password(StrongPassword)]]
    /\ sponsorships = <<>>
    /\ payments = <<>>
    /\ reports = <<>>
    /\ nextUserId = 2
    /\ inflight = NoInflight
    /\ last = NoRequest

\* user ids a request may name under SpecUsers: one more than is ever allocated
UserIdInputs == 1..(MaxUsers + 1)

NextUsers ==
    \/ \E id \in UserIdInputs, password \in Passwords : create_token(id, password)
    \/ \E c \in Credentials, data \in UserCreate :
          /\ create_user_outcome(c, data) = "ok" => nextUserId <= MaxUsers
          /\ create_user(c, data)
    \/ \E c \in Credentials, id \in UserIdInputs, data \in UserCreate :
          update_user(c, id, data)
    \/ \E c \in Credentials, id \in UserIdInputs : delete_user(c, id)

SpecUsers == InitUsers /\ [][NextUsers]_vars

(* ============ the seeded database of the relationship specs =========== *)
\* an administrator, two sponsors and a child, inserted out of band as
\* tests/conftest.py inserts its user; every one of them has logged in
SeedRoles == <<ADMIN, SPONSOR, SPONSOR, CHILD>>
SeedIds == 1..Len(SeedRoles)
SeedUser(n) ==
    [role |-> SeedRoles[n], username |-> <<"user", n>>, email |-> Some(<<"mail", n>>),
     hashed_password |-> hash_password(StrongPassword)]

InitSeeded ==
    /\ users = [i \in SeedIds |-> SeedUser(i)]
    /\ sponsorships = <<>>
    /\ payments = <<>>
    /\ reports = <<>>
    /\ nextUserId = Len(SeedRoles) + 1
    /\ inflight = NoInflight
    /\ last = NoRequest

\* the tokens issued at login: each carries the role its user was seeded with
SeedCredentials ==
    {c \in Credentials :
        c = NoCredential \/ (c.id \in SeedIds /\ c.role = SeedRoles[c.id])}
\* Optional[int] query parameters: absent, 0, or a user id
OptionalIds == {None, Some(0)} \cup {Some(i) : i \in SeedIds}

TransactionIds == {"", "T1"}
SponsorshipStatuses == {"active", "canceled"}
SponsorshipBase ==
    [sponsor_id : SeedIds, child_id : SeedIds, start_date : {"2024-03-20"},
     status : SponsorshipStatuses]
SponsorshipUpdate ==
    [start_date : {None, Some("2025-01-01")},
     status : {None, Some("")} \cup {Some(x) : x \in SponsorshipStatuses}]
PaymentCreate ==
    [sponsor_id : SeedIds, child_id : SeedIds, amount : {10},
     transaction_id : TransactionIds, status : {"completed"}]
PaymentUpdate ==
    [amount : {None, Some(20)},
     transaction_id : {None} \cup {Some(t) : t \in TransactionIds},
     status : {None}]
ChildReportCreate == [child_id : SeedIds, details : {"d1"}, status : {"unread"}]
ChildReportUpdate ==
    [details : {None, Some("d2")}, status : {None, Some("unread"), Some("read")}]

(* ============== SpecSponsorships: sponsorships and users =============== *)
\* sponsorships of the administrator and of the child: the handler asks no
\* role of the child
SponsorshipsOfTwo ==
    {d \in SponsorshipBase : SeedRoles[d.child_id] \in {ADMIN, CHILD}}

NextSponsorships ==
    \/ \E c \in SeedCredentials, data \in SponsorshipsOfTwo :
          /\ create_sponsorship_outcome(c, data) = "ok"
                => NextId(sponsorships) <= MaxSponsorships
          /\ create_sponsorship(c, data)
    \/ \E c \in SeedCredentials, id \in SponsorshipIds, data \in SponsorshipUpdate :
          IsNone(data.start_date) /\ update_sponsorship(c, id, data)
    \/ \E c \in SeedCredentials, id \in SponsorshipIds : delete_sponsorship(c, id)
    \/ \E c \in SeedCredentials, id \in SeedIds : delete_user(c, id)

SpecSponsorships == InitSeeded /\ [][NextSponsorships]_vars

(* ================= SpecPayments: payments of sponsorships ============== *)
\* sponsorships of the seeded child by either sponsor
ChildSponsorships ==
    {d \in SponsorshipBase : SeedRoles[d.sponsor_id] = SPONSOR
                              /\ SeedRoles[d.child_id] = CHILD}

\* payments for the administrator and for the child, by anyone; a child_id
\* parameter that is absent, 0 or the child
PaymentsOfTwo == {d \in PaymentCreate : SeedRoles[d.child_id] \in {ADMIN, CHILD}}
OptionalChild == {x \in OptionalIds : TruthyInt(x) => SeedRoles[x[1]] = CHILD}

NextPayments ==
    \/ \E c \in SeedCredentials, data \in ChildSponsorships :
          /\ create_sponsorship_outcome(c, data) = "ok"
                => NextId(sponsorships) <= MaxSponsorships
          /\ create_sponsorship(c, data)
    \/ \E c \in SeedCredentials, data \in PaymentsOfTwo :
          /\ create_payment_outcome(c, data) = "ok" => NextId(payments) <= MaxPayments
          /\ create_payment(c, data)
    \/ \E c \in SeedCredentials, sponsor_id \in OptionalIds, child_id \in OptionalChild :
          get_payments(c, sponsor_id, child_id, 1, MaxPayments)
    \/ \E c \in SeedCredentials, id \in PaymentIds, data \in PaymentUpdate :
          update_payment(c, id, data)
    \/ \E c \in SeedCredentials, id \in PaymentIds : delete_payment(c, id)

SpecPayments == InitSeeded /\ [][NextPayments]_vars

(* ================= Spec: every handler, one row per table ============== *)
\* one sponsor-child pair, one transaction id, one report; a PUT /users body
\* that repeats the stored row
OneSponsorship ==
    {d \in ChildSponsorships : d.sponsor_id = 2 /\ d.status = "active"}
OnePayment ==
    {d \in PaymentCreate : /\ \E x \in OneSponsorship : /\ x.sponsor_id = d.sponsor_id
                                                        /\ x.child_id = d.child_id
                           /\ d.transaction_id = "T1"}
OnePaymentUpdate ==
    {d \in PaymentUpdate : IsNone(d.amount) /\ d.transaction_id \in {None, Some("T1")}}
OneSponsorshipUpdate ==
    {d \in SponsorshipUpdate : IsNone(d.start_date) /\ TruthyStr(d.status)}
OneReportUpdate == {d \in ChildReportUpdate : IsNone(d.details)}
OneSponsor == {None} \cup {Some(d.sponsor_id) : d \in OneSponsorship}
OneReport == {d \in ChildReportCreate : SeedRoles[d.child_id] = CHILD}
OneChild == {None} \cup {Some(d.child_id) : d \in OneSponsorship}
SameUser(row) ==
    [role |-> row.role, username |-> row.username, email |-> row.email,
     password |-> row.hashed_password[2]]
NewUser ==
    [role : {SPONSOR}, username : {<<"user", nextUserId>>},
     email : {Some(<<"mail", nextUserId>>)}, password : Passwords]

Next ==
    \/ \E id \in SeedIds, password \in Passwords : create_token(id, password)
    \/ \E c \in SeedCredentials, data \in NewUser :
          /\ create_user_outcome(c, data) = "ok" => nextUserId <= MaxUsers
          /\ create_user(c, data)
    \/ \E c \in SeedCredentials : read_logged_in_user(c)
    \/ \E c \in SeedCredentials, id \in SeedIds :
          update_user(c, id, IF Exists(users, id) THEN SameUser(users[id])
                             ELSE SameUser(SeedUser(id)))
    \/ \E c \in SeedCredentials, id \in SeedIds : delete_user(c, id)
    \/ \E c \in SeedCredentials, data \in OneSponsorship :
          /\ create_sponsorship_outcome(c, data) = "ok"
                => NextId(sponsorships) <= MaxSponsorships
          /\ create_sponsorship(c, data)
    \/ \E c \in SeedCredentials, id \in SponsorshipIds, data \in OneSponsorshipUpdate :
          update_sponsorship(c, id, data)
    \/ \E c \in SeedCredentials, id \in SponsorshipIds : delete_sponsorship(c, id)
    \/ \E c \in SeedCredentials, data \in OnePayment :
          /\ create_payment_outcome(c, data) = "ok" => NextId(payments) <= MaxPayments
          /\ create_payment(c, data)
    \/ \E c \in SeedCredentials, sponsor_id \in OneSponsor, child_id \in OneChild :
          get_payments(c, sponsor_id, child_id, 1, MaxPayments)
    \/ \E c \in SeedCredentials, id \in PaymentIds, data \in OnePaymentUpdate :
          update_payment(c, id, data)
    \/ \E c \in SeedCredentials, id \in PaymentIds : delete_payment(c, id)
    \/ \E c \in SeedCredentials, data \in OneReport :
          /\ create_child_report_outcome(c, data) = "ok"
                => NextId(reports) <= MaxReports
          /\ create_child_report(c, data)
    \/ \E c \in SeedCredentials, id \in ReportIds, data \in OneReportUpdate :
          update_child_report(c, id, data)
    \/ \E c \in SeedCredentials, id \in ReportIds : delete_child_report(c, id)
    \/ \E c \in SeedCredentials, id \in ReportIds : mark_report_as_read(c, id)

Spec == InitSeeded /\ [][Next]_vars

(* ====== SpecConc: payment requests of several workers, interleaved ===== *)
\* each request is cut between the queries that check it and its db.commit()

\* create_payment up to the transaction id query
create_payment_check(c, data) ==
    LET out == create_payment_checks(c, data) IN
    /\ inflight' = IF out = "ok"
                      THEN inflight (+) SetToBag({[op |-> "create_payment",
                                                   c |-> c, data |-> data]})
                      ELSE inflight
    /\ UNCHANGED <<tables, nextUserId>>
    /\ Respond("create_payment", c, IF out = "ok" THEN "pending" ELSE out)

\* db.add(new_payment); db.commit()
create_payment_write(r) ==
    /\ inflight' = inflight (-) SetToBag({r})
    /\ UNCHANGED <<users, sponsorships, reports, nextUserId>>
    /\ LET out == create_payment_commit(r.data)
       IN /\ payments' = IF out = "ok"
                            THEN With(payments, NextId(payments), new_payment(r.data))
                            ELSE payments
          /\ Respond("create_payment", r.c, out)

\* the loop over update_fields on the loaded row: the session keeps, per
\* column, the value that differs from the loaded one
pending_changes(loaded, data) ==
    [amount |-> IF updated_payment(loaded, data).amount = loaded.amount
                THEN None ELSE data.amount,
     transaction_id |->
         IF updated_payment(loaded, data).transaction_id = loaded.transaction_id
         THEN None ELSE data.transaction_id,
     status |-> IF updated_payment(loaded, data).status = loaded.status
                THEN None ELSE data.status]

\* update_payment up to db.commit()
update_payment_check(c, payment_id, data) ==
    LET out == update_payment_checks(c, payment_id, data) IN
    /\ inflight' =
          IF out = "ok"
          THEN inflight (+) SetToBag({[op |-> "update_payment", c |-> c,
                                       payment_id |-> payment_id,
                                       changes |-> pending_changes(payments[payment_id],
                                                                   data)]})
          ELSE inflight
    /\ UNCHANGED <<tables, nextUserId>>
    /\ Respond("update_payment", c, IF out = "ok" THEN "pending" ELSE out)

\* db.commit(); db.refresh(payment): the UPDATE writes the changed columns
\* over the row as it is now; both calls fail when the row is gone
update_payment_write_outcome(r) ==
    IF ~Exists(payments, r.payment_id) THEN "DatabaseError"
    ELSE update_payment_commit(r.payment_id,
                               updated_payment(payments[r.payment_id], r.changes))

update_payment_write(r) ==
    /\ inflight' = inflight (-) SetToBag({r})
    /\ UNCHANGED <<users, sponsorships, reports, nextUserId>>
    /\ LET out == update_payment_write_outcome(r)
       IN /\ payments' = IF out = "ok"
                            THEN With(payments, r.payment_id,
                                      updated_payment(payments[r.payment_id],
                                                      r.changes))
                            ELSE payments
          /\ Respond("update_payment", r.c, out)

\* payloads of the concurrent requests: the administrator, one sponsorship,
\* every transaction id
ConcCredentials == {c \in SeedCredentials : c.role = ADMIN}
ConcPayments ==
    {d \in PaymentCreate : \E x \in OneSponsorship : /\ x.sponsor_id = d.sponsor_id
                                                     /\ x.child_id = d.child_id}
ConcPaymentUpdate ==
    {d \in PaymentUpdate : IsNone(d.amount) /\ ~IsNone(d.transaction_id)}
Pending(op) == {r \in BagToSet(inflight) : r.op = op}

NextConc ==
    \/ \E c \in ConcCredentials, data \in OneSponsorship :
          /\ create_sponsorship_outcome(c, data) = "ok"
                => NextId(sponsorships) <= MaxSponsorships
          /\ create_sponsorship(c, data)
    \/ \E c \in ConcCredentials, data \in ConcPayments :
          /\ create_payment_checks(c, data) = "ok"
                => BagCardinality(inflight) < MaxInflight
          /\ create_payment_check(c, data)
    \/ \E r \in Pending("create_payment") :
          /\ create_payment_commit(r.data) = "ok" => NextId(payments) <= MaxPayments
          /\ create_payment_write(r)
    \/ \E c \in ConcCredentials, id \in PaymentIds, data \in ConcPaymentUpdate :
          /\ update_payment_checks(c, id, data) = "ok"
                => BagCardinality(inflight) < MaxInflight
          /\ update_payment_check(c, id, data)
    \/ \E r \in Pending("update_payment") : update_payment_write(r)
    \/ \E c \in ConcCredentials, id \in PaymentIds : delete_payment(c, id)

SpecConc == InitSeeded /\ [][NextConc]_vars

(* == SpecConcSponsorships: sponsorship requests of several workers ===== *)
\* a table with UniqueConstraint("sponsor_id", "child_id")
sponsorship_pair_unique(table) ==
    \A i, j \in DOMAIN table :
        i # j => \/ table[i].sponsor_id # table[j].sponsor_id
                 \/ table[i].child_id # table[j].child_id
\* sponsorship_model.py: the table declares a primary key and two foreign
\* keys, and no constraint over the pair
sponsorship_constraints(table) ==
    \A i \in DOMAIN table : payment_foreign_keys(table[i])

\* create_sponsorship up to the duplicate query
create_sponsorship_check(c, data) ==
    LET out == create_sponsorship_outcome(c, data) IN
    /\ inflight' = IF out = "ok"
                      THEN inflight (+) SetToBag({[op |-> "create_sponsorship",
                                                   c |-> c, data |-> data]})
                      ELSE inflight
    /\ UNCHANGED <<tables, nextUserId>>
    /\ Respond("create_sponsorship", c, IF out = "ok" THEN "pending" ELSE out)

\* db.add(sponsorship); db.commit()
create_sponsorship_write(r) ==
    LET row == [sponsor_id |-> r.data.sponsor_id, child_id |-> r.data.child_id,
                start_date |-> r.data.start_date, status |-> r.data.status]
        out == IF sponsorship_constraints(With(sponsorships, NextId(sponsorships), row))
               THEN "ok" ELSE "DatabaseError"
    IN /\ inflight' = inflight (-) SetToBag({r})
       /\ sponsorships' = IF out = "ok"
                             THEN With(sponsorships, NextId(sponsorships), row)
                             ELSE sponsorships
       /\ UNCHANGED <<users, payments, reports, nextUserId>>
       /\ Respond("create_sponsorship", r.c, out)

NextConcSponsorships ==
    \/ \E c \in SeedCredentials, data \in ChildSponsorships :
          /\ create_sponsorship_outcome(c, data) = "ok"
                => BagCardinality(inflight) < MaxInflight
          /\ create_sponsorship_check(c, data)
    \/ \E r \in Pending("create_sponsorship") :
          /\ NextId(sponsorships) <= MaxSponsorships
          /\ create_sponsorship_write(r)
    \/ \E c \in ConcCredentials, id \in SponsorshipIds : delete_sponsorship(c, id)

SpecConcSponsorships == InitSeeded /\ [][NextConcSponsorships]_vars

(* ================= SpecViews: the read-only endpoints ================== *)
\* active sponsorships of the administrator and of the child, created and
\* removed by the administrator
ViewSponsorships ==
    {d \in SponsorshipBase :
        SeedRoles[d.child_id] \in {ADMIN, CHILD} /\ d.status = "active"}
\* the first page, and the page after the last
Pages == {1, 2}
\* a sponsor asks for its own payments and reports, any other principal for
\* those of either sponsor
ViewSponsors(c) ==
    IF c.role = SPONSOR THEN {Some(c.id)}
    ELSE {Some(i) : i \in {j \in SeedIds : SeedRoles[j] = SPONSOR}}

NextViews ==
    \/ \E c \in ConcCredentials, data \in ViewSponsorships :
          /\ create_sponsorship_outcome(c, data) = "ok"
                => NextId(sponsorships) <= MaxSponsorships
          /\ create_sponsorship(c, data)
    \/ \E c \in ConcCredentials, id \in SponsorshipIds : delete_sponsorship(c, id)
    \/ \E c \in SeedCredentials, id \in SeedIds : read_user(c, id)
    \/ \E c \in SeedCredentials, id \in SeedIds, page \in Pages :
          get_sponsored_children(c, id, page, MaxSponsorships)
    \/ \E c \in SeedCredentials, id \in SeedIds : get_sponsor_of_child(c, id)
    \/ \E c \in SeedCredentials, page \in Pages :
          get_sponsors_children(c, page, MaxSponsorships)
    \/ \E c \in SeedCredentials, id \in SeedIds : get_child_details(c, id)
    \/ \E c \in ConcCredentials, data \in OneReport :
          /\ create_child_report_outcome(c, data) = "ok"
                => NextId(reports) <= MaxReports
          /\ create_child_report(c, data)
    \/ \E c \in SeedCredentials, child_id \in OneChild :
          \E sponsor_id \in ViewSponsors(c) :
              get_payments(c, sponsor_id, child_id, 1, MaxPayments)
    \/ \E c \in SeedCredentials, child_id \in OneChild :
          \E sponsor_id \in ViewSponsors(c) :
              get_reports(c, sponsor_id, child_id, 1, MaxReports)

SpecViews == InitSeeded /\ [][NextViews]_vars

(* ================= SpecPaginate: paginate_query alone ================== *)
\* Query(..., le=100): the largest page size the endpoints accept
PageSizeLimit == 100
PageSizes == (1..MaxPageSize) \cup {PageSizeLimit}
\* a filtered query: the rows of a table of MaxRows rows that pass a filter,
\* in primary-key order
Queries == {Ascending(S) : S \in SUBSET (1..MaxRows)}

InitPaginate ==
    /\ users = <<>>
    /\ sponsorships = <<>>
    /\ payments = <<>>
    /\ reports = <<>>
    /\ nextUserId = 1
    /\ inflight = NoInflight
    /\ \E query \in Queries, page \in 1..MaxPage, page_size \in PageSizes :
          last = [op |-> "request", query |-> query, page |-> page,
                  page_size |-> page_size]

paginate(query, page, page_size) ==
    /\ last' = [op |-> "paginate_query", query |-> query, page |-> page,
                page_size |-> page_size,
                pagination |-> paginate_query(query, page, page_size)]
    /\ UNCHANGED <<tables, nextUserId, inflight>>

NextPaginate ==
    /\ last.op = "request"
    /\ paginate(last.query, last.page, last.page_size)

SpecPaginate == InitPaginate /\ [][NextPaginate]_vars

(* ================ SpecListing: the admin listings ====================== *)
\* the administrator fills the tables, every principal asks for pages
NextListing ==
    \/ \E c \in ConcCredentials, data \in OneSponsorship :
          /\ create_sponsorship_outcome(c, data) = "ok"
                => NextId(sponsorships) <= MaxSponsorships
          /\ create_sponsorship(c, data)
    \/ \E c \in ConcCredentials, data \in OnePayment :
          /\ create_payment_outcome(c, data) = "ok" => NextId(payments) <= MaxPayments
          /\ create_payment(c, data)
    \/ \E c \in ConcCredentials, data \in OneReport :
          /\ create_child_report_outcome(c, data) = "ok"
                => NextId(reports) <= MaxReports
          /\ create_child_report(c, data)
    \/ \E c \in SeedCredentials, page \in Pages, page_size \in (1..MaxPageSize) :
          get_all_sponsors(c, page, page_size)
    \/ \E c \in SeedCredentials, page \in Pages, page_size \in (1..MaxPageSize) :
          get_all_children(c, page, page_size)
    \/ \E c \in SeedCredentials, page \in Pages, page_size \in (1..MaxPageSize) :
          get_all_payments(c, page, page_size)
    \/ \E c \in SeedCredentials, page \in Pages, page_size \in (1..MaxPageSize) :
          get_all_sponsorships(c, page, page_size)
    \/ \E c \in SeedCredentials, page \in Pages, page_size \in (1..MaxPageSize) :
          get_all_child_reports(c, page, page_size)

SpecListing == InitSeeded /\ [][NextListing]_vars

(* ============ SpecRoles: updates and deletions of the seeded users ===== *)
\* a PUT body that repeats the row and names any role
RoleChange(row) == {[SameUser(row) EXCEPT !.role = r] : r \in UserRole}

NextRoles ==
    \/ \E c \in SeedCredentials, id \in SeedIds :
          \E data \in RoleChange(IF Exists(users, id) THEN users[id]
                                  ELSE SeedUser(id)) :
              update_user(c, id, data)
    \/ \E c \in SeedCredentials, id \in SeedIds : delete_user(c, id)

SpecRoles == InitSeeded /\ [][NextRoles]_vars

(* ========== SpecDashboard: the statistics after every write ============ *)
\* the administrator creates, updates and deletes users, sponsorships and
\* payments; every principal asks for the dashboard.  The users of the one
\* sponsorship keep their roles, the other sponsor is given any role
OneUser == {1} \cup {d.sponsor_id : d \in OneSponsorship}
               \cup {d.child_id : d \in OneSponsorship}
NextDashboard ==
    \/ \E c \in ConcCredentials, data \in NewUser :
          /\ create_user_outcome(c, [data EXCEPT !.role = CHILD]) = "ok"
                => nextUserId - Len(SeedRoles) < MaxUsers
          /\ create_user(c, [data EXCEPT !.role = CHILD])
    \/ \E c \in ConcCredentials, id \in SeedIds \ OneUser :
          \E data \in RoleChange(IF Exists(users, id) THEN users[id]
                                  ELSE SeedUser(id)) :
              update_user(c, id, data)
    \/ \E c \in ConcCredentials, id \in 1..(nextUserId - 1) : delete_user(c, id)
    \/ \E c \in ConcCredentials, data \in OneSponsorship :
          /\ create_sponsorship_outcome(c, data) = "ok"
                => NextId(sponsorships) <= MaxSponsorships
          /\ create_sponsorship(c, data)
    \/ \E c \in ConcCredentials, id \in SponsorshipIds, data \in OneSponsorshipUpdate :
          update_sponsorship(c, id, data)
    \/ \E c \in ConcCredentials, id \in SponsorshipIds : delete_sponsorship(c, id)
    \/ \E c \in ConcCredentials, data \in ConcPayments :
          /\ create_payment_outcome(c, data) = "ok" => NextId(payments) <= MaxPayments
          /\ create_payment(c, data)
    \/ \E c \in ConcCredentials, id \in PaymentIds, data \in PaymentUpdate :
          IsNone(data.transaction_id) /\ update_payment(c, id, data)
    \/ \E c \in ConcCredentials, id \in PaymentIds : delete_payment(c, id)
    \/ \E c \in SeedCredentials : get_admin_dashboard(c)

SpecDashboard == InitSeeded /\ [][NextDashboard]_vars

(* ============ SpecUpdates: the three partial updates =================== *)
\* the administrator stores one sponsorship, two payments and a report and
\* sends every PATCH body (a payment keeps its transaction id)
NextUpdates ==
    \/ \E c \in ConcCredentials, data \in OneSponsorship :
          /\ create_sponsorship_outcome(c, data) = "ok"
                => NextId(sponsorships) <= MaxSponsorships
          /\ create_sponsorship(c, data)
    \/ \E c \in ConcCredentials, data \in ConcPayments :
          /\ create_payment_outcome(c, data) = "ok" => NextId(payments) <= MaxPayments
          /\ create_payment(c, data)
    \/ \E c \in ConcCredentials, data \in OneReport :
          /\ create_child_report_outcome(c, data) = "ok"
                => NextId(reports) <= MaxReports
          /\ create_child_report(c, data)
    \/ \E c \in ConcCredentials, id \in SponsorshipIds, data \in SponsorshipUpdate :
          update_sponsorship(c, id, data)
    \/ \E c \in ConcCredentials, id \in PaymentIds, data \in PaymentUpdate :
          IsNone(data.transaction_id) /\ update_payment(c, id, data)
    \/ \E c \in ConcCredentials, id \in ReportIds, data \in ChildReportUpdate :
          update_child_report(c, id, data)

SpecUpdates == InitSeeded /\ [][NextUpdates]_vars

(* ============ SpecReports: the status of the child reports ============= *)
\* bodies whose status is any string
AnyStatus == ReportStatus \cup {"archived"}
NextReports ==
    \/ \E c \in ConcCredentials, data \in OneReport, status \in AnyStatus :
          /\ create_child_report_outcome(c, data) = "ok"
                => NextId(reports) <= MaxReports
          /\ create_child_report(c, [data EXCEPT !.status = status])
    \/ \E c \in ConcCredentials, id \in ReportIds, data \in ChildReportUpdate :
          \E status \in {data.status, Some("archived")} :
              update_child_report(c, id, [data EXCEPT !.status = status])
    \/ \E c \in SeedCredentials, id \in ReportIds : mark_report_as_read(c, id)
    \/ \E c \in ConcCredentials, id \in ReportIds : delete_child_report(c, id)
    \/ \E c \in ConcCredentials, data \in OneSponsorship :
          /\ create_sponsorship_outcome(c, data) = "ok"
                => NextId(sponsorships) <= MaxSponsorships
          /\ create_sponsorship(c, data)

SpecReports == InitSeeded /\ [][NextReports]_vars

(* ============================== claims ================================= *)
\* an existing principal whose stored role is not admin
NonAdmin(c) ==
    get_current_user(c) /\ Exists(users, c.id) /\ users[c.id].role # ADMIN
\* an existing principal whose stored role is admin
Admin(c) ==
    get_current_user(c) /\ Exists(users, c.id) /\ users[c.id].role = ADMIN
\* the latest request touched no table
NothingChanged ==
    /\ ~last.changed
    /\ last.dUsers = 0 /\ last.dSponsorships = 0
    /\ last.dPayments = 0 /\ last.dReports = 0

\* C1: for every non-admin principal and every combination of the sponsor_id
\* and child_id parameters of get_payments (absent, 0 or a user id), the
\* request fails or returns only payments whose sponsor_id is the principal's
\* id, and a sponsor_id naming another sponsor fails with Forbidden.
\* Stated as claimed; the code violates it.
C1_OnlyOwnPayments ==
    \A c \in Credentials, sponsor_id \in OptionalIds, child_id \in OptionalIds :
        NonAdmin(c) =>
            LET response == get_payments_response(c, sponsor_id, child_id,
                                                  1, MaxPayments)
            IN /\ response.out = "ok" =>
                     \A k \in 1..Len(response.payments) :
                         payments[response.payments[k]].sponsor_id = c.id
               /\ (/\ ~IsNone(sponsor_id)
                   /\ UserWithRole(sponsor_id[1], SPONSOR)
                   /\ sponsor_id[1] # c.id) => response.out = "Forbidden"

\* C2: update_user by an existing principal whose stored role is not admin
\* fails with Forbidden, for every target id and body, and so leaves the
\* target row unchanged.  Stated as claimed; the code violates it.
C2_UpdateUserForbidden ==
    /\ \A c \in Credentials, user_id \in UserIdInputs, data \in UserCreate :
          NonAdmin(c) => update_user_outcome(c, user_id, data) = "Forbidden"
    /\ (last.op = "update_user" /\ last.principal # ADMIN) => ~last.changed

\* a sponsorship with status "active" links the sponsor and the child
C3_ActiveLink(data) ==
    \E i \in DOMAIN sponsorships :
        /\ sponsorships[i].sponsor_id = data.sponsor_id
        /\ sponsorships[i].child_id = data.child_id
        /\ sponsorships[i].status = "active"

\* C3: create_payment by an authorized principal (admin, or the sponsor the
\* payment names) for an existing sponsor-role sponsor and child-role child
\* fails with InvalidState and adds no payment when no sponsorship with
\* status "active" links the two, also when a row with another status does;
\* with an active row and an unused transaction_id it succeeds and adds
\* exactly one payment.
C3_ActiveSponsorshipRequired ==
    /\ \A c \in Credentials, data \in PaymentCreate :
          (/\ Admin(c) \/ (NonAdmin(c) /\ c.id = data.sponsor_id)
           /\ UserWithRole(data.sponsor_id, SPONSOR)
           /\ UserWithRole(data.child_id, CHILD))
          => /\ ~C3_ActiveLink(data)
                   => create_payment_outcome(c, data) = "InvalidState"
             /\ (/\ C3_ActiveLink(data)
                 /\ \A i \in DOMAIN payments :
                        payments[i].transaction_id # data.transaction_id)
                   => create_payment_outcome(c, data) = "ok"
    /\ last.op = "create_payment" =>
          /\ last.out = "InvalidState" => NothingChanged
          /\ last.out = "ok" => /\ last.dPayments = 1
                                /\ last.dUsers = 0 /\ last.dSponsorships = 0
                                /\ last.dReports = 0
\* a sponsor's payment was refused while every sponsor is linked to the child
\* by a canceled sponsorship
C3_RefusedOnCanceled ==
    /\ last.op = "create_payment" /\ last.out = "InvalidState"
    /\ last.principal = SPONSOR
    /\ \A d \in ChildSponsorships :
          \E i \in DOMAIN sponsorships :
              /\ sponsorships[i].sponsor_id = d.sponsor_id
              /\ sponsorships[i].child_id = d.child_id
              /\ sponsorships[i].status = "canceled"

\* C4: create_user by an existing principal whose stored role is sponsor or
\* child fails with Forbidden and adds no user, whatever the body: valid, a
\* duplicate username or email, or a weak password.
C4_CreateUserForbidden ==
    /\ \A c \in Credentials, data \in UserCreate :
          NonAdmin(c) => create_user_outcome(c, data) = "Forbidden"
    /\ (last.op = "create_user" /\ last.principal \in {SPONSOR, CHILD})
          => last.out = "Forbidden" /\ NothingChanged
\* a sponsor or child was refused while the table held a second user, so
\* that bodies with a free and with a taken username were both on offer
C4_RefusedNonAdmin ==
    /\ last.op = "create_user" /\ last.out = "Forbidden"
    /\ last.principal \in {SPONSOR, CHILD}
    /\ Cardinality(DOMAIN users) = MaxUsers

\* the nine handlers the claim names
AdminOnly ==
    {"delete_user", "create_sponsorship", "update_sponsorship", "delete_sponsorship",
     "update_payment", "delete_payment", "create_child_report",
     "update_child_report", "delete_child_report"}

\* C5 as claimed: each of the nine admin-only handlers refuses an existing
\* non-admin principal with Forbidden for every target id, whether or not the
\* target row exists.  delete_user violates it.
C5_AlwaysForbidden ==
    \A c \in Credentials :
        NonAdmin(c) =>
            /\ \A user_id \in 1..nextUserId :
                  delete_user_outcome(c, user_id) = "Forbidden"
            /\ \A data \in SponsorshipBase :
                  create_sponsorship_outcome(c, data) = "Forbidden"
            /\ \A id \in SponsorshipIds :
                  /\ update_sponsorship_outcome(c, id) = "Forbidden"
                  /\ delete_sponsorship_outcome(c, id) = "Forbidden"
            /\ \A id \in PaymentIds :
                  /\ \A data \in PaymentUpdate :
                        update_payment_outcome(c, id, data) = "Forbidden"
                  /\ delete_payment_outcome(c, id) = "Forbidden"
            /\ \A data \in ChildReportCreate :
                  create_child_report_outcome(c, data) = "Forbidden"
            /\ \A id \in ReportIds :
                  /\ update_child_report_outcome(c, id) = "Forbidden"
                  /\ delete_child_report_outcome(c, id) = "Forbidden"

\* C5 as amended: the nine handlers refuse an existing non-admin principal
\* with Forbidden for every target id, except that delete_user with a target
\* id that names no user fails with NotFound; every table is left unchanged.
C5_NonAdminRefused ==
    /\ \A c \in Credentials :
          NonAdmin(c) =>
              /\ \A user_id \in 1..nextUserId :
                    delete_user_outcome(c, user_id) =
                        IF user_id \in DOMAIN users THEN "Forbidden" ELSE "NotFound"
              /\ \A data \in SponsorshipBase :
                    create_sponsorship_outcome(c, data) = "Forbidden"
              /\ \A id \in SponsorshipIds :
                    /\ update_sponsorship_outcome(c, id) = "Forbidden"
                    /\ delete_sponsorship_outcome(c, id) = "Forbidden"
              /\ \A id \in PaymentIds :
                    /\ \A data \in PaymentUpdate :
                          update_payment_outcome(c, id, data) = "Forbidden"
                    /\ delete_payment_outcome(c, id) = "Forbidden"
              /\ \A data \in ChildReportCreate :
                    create_child_report_outcome(c, data) = "Forbidden"
              /\ \A id \in ReportIds :
                    /\ update_child_report_outcome(c, id) = "Forbidden"
                    /\ delete_child_report_outcome(c, id) = "Forbidden"
    /\ (last.op \in AdminOnly /\ last.principal \in {SPONSOR, CHILD}) =>
          /\ last.out \in {"Forbidden", "NotFound"}
          /\ last.out = "NotFound" => last.op = "delete_user"
          /\ NothingChanged
\* a sponsor was refused the deletion of a sponsorship id that names no row
C5_RefusedMissingTarget ==
    /\ last.op = "delete_sponsorship" /\ last.out = "Forbidden"
    /\ last.principal = SPONSOR
    /\ sponsorships = <<>>

\* C6: delete_user by an admin whose id is the target id fails with the
\* self-deletion error, neither Forbidden nor success, and leaves the users
\* and all dependent rows unchanged.
C6_SelfDeletionRefused ==
    /\ \A c \in Credentials :
          Admin(c) => delete_user_outcome(c, c.id) = "SelfDeletion"
    /\ (last.op = "delete_user" /\ last.out = "SelfDeletion") =>
          last.principal = ADMIN /\ NothingChanged
    /\ \E i \in DOMAIN users : users[i].role = ADMIN
\* the admin was refused while a sponsorship names the admin as its child
C6_AdminKeptWithDependents ==
    /\ last.op = "delete_user" /\ last.out = "SelfDeletion"
    /\ \E i \in DOMAIN sponsorships : users[sponsorships[i].child_id].role = ADMIN

\* C7: under requests that each run atomically (create_sponsorship,
\* update_sponsorship, delete_sponsorship, delete_user) at most one
\* sponsorship exists per (sponsor_id, child_id) pair: create_sponsorship by
\* an admin for a pair that has a row fails with Conflict whatever the row's
\* status, and adds no row.
C7_OneSponsorshipPerPair ==
    /\ \A i, j \in DOMAIN sponsorships :
          (/\ sponsorships[i].sponsor_id = sponsorships[j].sponsor_id
           /\ sponsorships[i].child_id = sponsorships[j].child_id) => i = j
    /\ \A c \in Credentials, data \in SponsorshipBase :
          (/\ Admin(c)
           /\ \E i \in DOMAIN sponsorships :
                 /\ sponsorships[i].sponsor_id = data.sponsor_id
                 /\ sponsorships[i].child_id = data.child_id)
          => create_sponsorship_outcome(c, data) = "Conflict"
    /\ (last.op = "create_sponsorship" /\ last.out = "Conflict") => NothingChanged
\* a second sponsorship was refused while every row is canceled
C7_ConflictWithCanceled ==
    /\ last.op = "create_sponsorship" /\ last.out = "Conflict"
    /\ sponsorships # <<>>
    /\ \A i \in DOMAIN sponsorships : sponsorships[i].status = "canceled"

\* C8: in every reachable state, also those reached by interleaving the
\* check step and the write step of concurrent create_payment and
\* update_payment requests, no two payments hold the same transaction_id.
C8_TransactionIdsDistinct ==
    \A i, j \in DOMAIN payments :
        payments[i].transaction_id = payments[j].transaction_id => i = j
\* two requests passed their checks with one transaction id; the first wrote
\* it and the unique index refused the insert of the second
C8_SecondWriteRefused ==
    /\ last.op = "create_payment" /\ last.out = "DatabaseError"
    /\ payments # <<>>

\* C9 as claimed: update_payment by an admin with a transaction_id, any
\* string and also the empty one, that another payment holds fails with
\* Conflict; with the payment's own transaction_id it succeeds.  The code
\* violates it for the empty string.
C9_TakenTransactionIdConflict ==
    /\ \A c \in Credentials, id \in DOMAIN payments, data \in PaymentUpdate :
          (Admin(c) /\ ~IsNone(data.transaction_id)) =>
              /\ (\E j \in DOMAIN payments :
                     j # id /\ payments[j].transaction_id = data.transaction_id[1])
                    => update_payment_outcome(c, id, data) = "Conflict"
              /\ payments[id].transaction_id = data.transaction_id[1]
                    => update_payment_outcome(c, id, data) = "ok"
    /\ (last.op = "update_payment" /\ last.out # "ok") => NothingChanged

\* every handler that takes a credential, over its inputs, answers with out
EveryEndpoint(c, out) ==
    /\ read_logged_in_user_outcome(c) = out
    /\ \A data \in NewUser : create_user_outcome(c, data) = out
    /\ \A user_id \in 1..nextUserId :
          /\ \A n \in SeedIds :
                update_user_outcome(c, user_id, SameUser(SeedUser(n))) = out
          /\ delete_user_outcome(c, user_id) = out
    /\ \A data \in SponsorshipBase : create_sponsorship_outcome(c, data) = out
    /\ \A id \in SponsorshipIds :
          /\ update_sponsorship_outcome(c, id) = out
          /\ delete_sponsorship_outcome(c, id) = out
    /\ \A data \in PaymentCreate : create_payment_outcome(c, data) = out
    /\ \A sponsor_id \in OptionalIds, child_id \in OptionalIds :
          get_payments_response(c, sponsor_id, child_id, 1, MaxPayments).out = out
    /\ \A id \in PaymentIds :
          /\ \A data \in PaymentUpdate : update_payment_outcome(c, id, data) = out
          /\ delete_payment_outcome(c, id) = out
    /\ \A data \in ChildReportCreate : create_child_report_outcome(c, data) = out
    /\ \A id \in ReportIds :
          /\ update_child_report_outcome(c, id) = out
          /\ delete_child_report_outcome(c, id) = out
          /\ mark_report_as_read_outcome(c, id) = out

C12_ReferencesExist ==
    /\ \A i \in DOMAIN sponsorships :
          Exists(users, sponsorships[i].sponsor_id)
              /\ Exists(users, sponsorships[i].child_id)
    /\ \A i \in DOMAIN payments :
          Exists(users, payments[i].sponsor_id) /\ Exists(users, payments[i].child_id)
    /\ \A i \in DOMAIN reports : Exists(users, reports[i].child_id)
    /\ \A c \in Credentials, user_id \in 1..(nextUserId - 1) :
          delete_user_outcome(c, user_id) = "ok" =>
              /\ \A table \in {cascade(sponsorships, user_id),
                                cascade(payments, user_id)} :
                     \A i \in DOMAIN table :
                         table[i].sponsor_id # user_id /\ table[i].child_id # user_id
              /\ \A i \in DOMAIN cascade_reports(reports, user_id) :
                     reports[i].child_id # user_id

\* a delete_user that took a sponsorship, a payment and a report with it
C12_DeletedWithDependents ==
    /\ last.op = "delete_user" /\ last.out = "ok" /\ last.dUsers = -1
    /\ last.dSponsorships < 0 /\ last.dPayments < 0 /\ last.dReports < 0

\* C13: create_sponsorship by an admin fails with NotFound when child_id names
\* an existing User whose role is not child, and when sponsor_id names an
\* existing User whose role is not sponsor; the refused request adds no
\* Sponsorship row.  Stated as claimed; the code violates it.
C13_RolesOfPairChecked ==
    /\ \A c \in Credentials, data \in SponsorshipBase :
          Admin(c) =>
              /\ (Exists(users, data.child_id) /\ users[data.child_id].role # CHILD)
                    => create_sponsorship_outcome(c, data) = "NotFound"
              /\ (Exists(users, data.sponsor_id)
                     /\ users[data.sponsor_id].role # SPONSOR)
                    => create_sponsorship_outcome(c, data) = "NotFound"
    /\ (last.op = "create_sponsorship" /\ last.out = "NotFound") => NothingChanged
    /\ \A i \in DOMAIN sponsorships : users[sponsorships[i].child_id].role = CHILD

\* C14: for an existing principal and an existing child, get_child_details
\* succeeds when the principal is an admin or has at least one Sponsorship row
\* (of any status) with that child, also when the child has several sponsors,
\* and fails with Forbidden for every other principal, whichever row first()
\* returns.  Stated as claimed; the code violates it.
C14_DetailsForEverySponsor ==
    \A c \in Credentials, id \in 1..(nextUserId - 1) :
        (get_current_user(c) /\ Exists(users, c.id) /\ UserWithRole(id, CHILD)) =>
            \A sponsorship \in first_sponsorship(id) :
                get_child_details_outcome(c, id, sponsorship) =
                    IF is_admin(users[c.id]) \/ is_sponsor_of_child(c.id, id)
                    THEN "ok" ELSE "Forbidden"

\* the password policy: 8 to 64 characters, at least one lower-case letter,
\* one upper-case letter, one digit and one symbol, and no whitespace
C15_Compliant(pw) ==
    /\ Len(pw) >= 8 /\ Len(pw) <= 64
    /\ \E i \in 1..Len(pw) : pw[i] \in Lower
    /\ \E i \in 1..Len(pw) : pw[i] \in Upper
    /\ \E i \in 1..Len(pw) : pw[i] \in Digit
    /\ \E i \in 1..Len(pw) : pw[i] \in Special
    /\ \A i \in 1..Len(pw) : pw[i] \notin Space \cup Newline

\* C15: every stored password hash was computed from a password that
\* satisfies the password policy, and a create_user or update_user request
\* with a password that does not satisfy it never succeeds and, when nothing
\* else is wrong with it, fails with ValidationError; a ValidationError stores
\* nothing.  Stated as claimed; the code violates it.
C15_HashesOfCompliantPasswords ==
    /\ \A i \in DOMAIN users : C15_Compliant(users[i].hashed_password[2])
    /\ \A c \in Credentials, user_id \in UserIdInputs,
          role \in UserRole, username \in Usernames, email \in Emails,
          password \in Passwords \cup {NewlinePassword} :
          LET data == [role |-> role, username |-> username, email |-> email,
                       password |-> password]
          IN ~C15_Compliant(password) =>
                /\ create_user_outcome(c, data) # "ok"
                /\ update_user_outcome(c, user_id, data) # "ok"
                /\ (Admin(c) /\ ~existing_user(data))
                      => create_user_outcome(c, data) = "ValidationError"
                /\ (Admin(c) /\ Exists(users, user_id)
                       /\ users_unique(With(users, user_id,
                                            updated_user(users[user_id], data))))
                      => update_user_outcome(c, user_id, data) = "ValidationError"
    /\ last.out = "ValidationError" => NothingChanged

C17_Unlinked(c, sponsor_id, child_id) ==
    /\ get_current_user(c) /\ Exists(users, c.id)
    /\ users[c.id].role = ADMIN \/ c.id = sponsor_id
    /\ UserWithRole(sponsor_id, SPONSOR)
    /\ UserWithRole(child_id, CHILD)
    /\ ~\E i \in DOMAIN sponsorships :
           sponsorships[i].sponsor_id = sponsor_id
               /\ sponsorships[i].child_id = child_id

\* C17 as claimed: in that case get_payments and get_reports with both ids
\* fail with InvalidState.  The code violates it.
C17_UnlinkedIsInvalidState ==
    \A c \in Credentials, sponsor_id \in SeedIds, child_id \in SeedIds,
       page \in Pages :
        C17_Unlinked(c, sponsor_id, child_id) =>
            /\ get_payments_response(c, Some(sponsor_id), Some(child_id),
                                     page, MaxPayments).out = "InvalidState"
            /\ get_reports_response(c, Some(sponsor_id), Some(child_id),
                                    page, MaxReports).out = "InvalidState"

\* C17, amended: in that case get_reports fails with InvalidState, and
\* get_payments fails with InvalidState for an admin and with Forbidden for
\* the sponsor itself; neither returns a page.
C17_UnlinkedIsRefused ==
    \A c \in Credentials, sponsor_id \in SeedIds, child_id \in SeedIds,
       page \in Pages :
        C17_Unlinked(c, sponsor_id, child_id) =>
            /\ get_payments_response(c, Some(sponsor_id), Some(child_id),
                                     page, MaxPayments)
                  = [out |-> IF users[c.id].role = ADMIN THEN "InvalidState"
                             ELSE "Forbidden",
                     payments |-> <<>>]
            /\ get_reports_response(c, Some(sponsor_id), Some(child_id),
                                    page, MaxReports)
                  = [out |-> "InvalidState", reports |-> <<>>]

\* a sponsor asked for its own payments to a child it has no sponsorship
\* with, and was refused as not permitted
C17_SponsorRefusedOnChild ==
    /\ last.op = "get_payments" /\ last.principal = SPONSOR
    /\ last.out = "Forbidden"

\* C18: for every filtered query and every page size, paginate_query returns
\* as total_count the number of rows of the query it was given and as
\* total_pages the least n with n * page_size >= total_count, which is 0 when
\* total_count is 0.
C18_CeilingOfFilteredCount ==
    last.op = "paginate_query" =>
        LET n == last.pagination.total_pages
            total_count == last.pagination.total_count
        IN /\ total_count = Len(last.query)
           /\ n >= 0
           /\ n * last.page_size >= total_count
           /\ n > 0 => (n - 1) * last.page_size < total_count
           /\ total_count = 0 => n = 0

\* a filter passed some but not all rows of the table, and the last of
\* several pages is not full
C18_PartialLastPage ==
    /\ last.op = "paginate_query"
    /\ Len(last.query) > 0 /\ Len(last.query) < MaxRows
    /\ last.pagination.total_pages > 1
    /\ last.pagination.total_count % last.page_size # 0

\* C19: for every page after the last, paginate_query returns an empty result
\* sequence with the total_count and total_pages it returns for page 1.
C19_EmptyAfterLastPage ==
    (last.op = "paginate_query" /\ last.page > last.pagination.total_pages) =>
        LET first == paginate_query(last.query, 1, last.page_size)
        IN /\ last.pagination.results = <<>>
           /\ last.pagination.total_count = first.total_count
           /\ last.pagination.total_pages = first.total_pages

\* a page after the last of a query that has rows
C19_PageAfterLast ==
    /\ last.op = "paginate_query"
    /\ last.pagination.total_count > 0
    /\ last.page > last.pagination.total_pages
    /\ last.pagination.results = <<>>

\* the five listings, as responses to one request
C20_Listings(c, page, page_size) ==
    {[query |-> all_sponsors,
      response |-> admin_listing(c, all_sponsors, page, page_size)],
     [query |-> all_children,
      response |-> admin_listing(c, all_children, page, page_size)],
     [query |-> all_payments,
      response |-> admin_listing(c, all_payments, page, page_size)],
     [query |-> all_sponsorships,
      response |-> admin_listing(c, all_sponsorships, page, page_size)],
     [query |-> all_child_reports,
      response |-> admin_listing(c, all_child_reports, page, page_size)]}
\* the least n with n * page_size >= total
C20_Ceiling(total, page_size) ==
    CHOOSE n \in 0..total :
        n * page_size >= total /\ (n > 0 => (n - 1) * page_size < total)
C20_Metadata(total, page, page_size) ==
    [page |-> page, page_size |-> page_size, total |-> total,
     total_pages |-> C20_Ceiling(total, page_size)]

RECURSIVE C21_Total(_)
C21_Total(ids) ==
    IF ids = <<>> THEN 0 ELSE payments[Head(ids)].amount + C21_Total(Tail(ids))
C21_Statistics ==
    [total_sponsors |-> Cardinality({i \in DOMAIN users : users[i].role = SPONSOR}),
     total_children |-> Cardinality({i \in DOMAIN users : users[i].role = CHILD}),
     total_payments |-> Cardinality(DOMAIN payments),
     total_amount |-> Some(IF payments = <<>> THEN 0
                           ELSE C21_Total(Ascending(DOMAIN payments)))]

\* C21: whatever creations, updates and deletions of users, sponsorships and
\* payments came before, get_admin_dashboard called by an admin succeeds and
\* returns the number of sponsor-role Users, the number of child-role Users,
\* the number of Payment rows and the sum of their amounts, the sum being the
\* number 0, not null, when there is no Payment row.
C21_DashboardCounts ==
    /\ \A c \in Credentials :
          Admin(c) => get_admin_dashboard_response(c) =
                         [out |-> "ok", stats |-> Some(C21_Statistics)]
    /\ (last.op = "get_admin_dashboard" /\ last.principal = ADMIN)
          => /\ last.out = "ok"
             /\ last.stats = Some(C21_Statistics)
             /\ ~IsNone(last.stats[1].total_amount)
\* the dashboard over two payments, one of them updated
C21_SumOfTwo ==
    /\ last.op = "get_admin_dashboard" /\ last.out = "ok"
    /\ last.stats[1].total_payments = 2
    /\ last.stats[1].total_amount = Some(30)

\* the request names the username of a stored User, or its email
C22_Registered(data) ==
    \E i \in DOMAIN users :
        \/ users[i].username = data.username
        \/ (~IsNone(data.email) /\ users[i].email = data.email)

\* C22: create_user by an admin with the username or the email of an
\* existing User fails with the 400 "Email or username already registered"
\* (Conflict) whatever the password, a password that breaks the policy
\* included, and the request adds no User row.
C22_DuplicateIsConflict ==
    /\ \A c \in Credentials, data \in UserCreate :
          (Admin(c) /\ C22_Registered(data))
              => create_user_outcome(c, data) = "Conflict"
    /\ (last.op = "create_user" /\ last.out = "Conflict") => NothingChanged
\* an admin was refused a duplicate while two Users are stored
C22_DuplicateRefused ==
    /\ last.op = "create_user" /\ last.out = "Conflict"
    /\ last.principal = ADMIN
    /\ Cardinality(DOMAIN users) = 2

\* between the rows old and new, a field differs only where the body data
\* carries a non-null value for it, and then holds that value
C23_OnlySupplied(old, new, data) ==
    /\ DOMAIN new = DOMAIN old
    /\ \A f \in DOMAIN old :
          new[f] # old[f] => /\ f \in DOMAIN data
                             /\ ~IsNone(data[f])
                             /\ new[f] = data[f][1]
\* the step changed at most one row of the table, by a body of the set
\* bodies, and added or removed none
C23_OneRow(table, after, bodies) ==
    /\ DOMAIN after = DOMAIN table
    /\ \A i, j \in DOMAIN table :
          (after[i] # table[i] /\ after[j] # table[j]) => i = j
    /\ \A i \in DOMAIN table :
          \E data \in bodies : C23_OnlySupplied(table[i], after[i], data)

C24_Errors ==
    {"Unauthenticated", "Forbidden", "NotFound", "Conflict", "InvalidState",
     "ValidationError"}

\* C24: a request that ends in Unauthenticated, Forbidden, NotFound, Conflict,
\* InvalidState or ValidationError leaves the User, Sponsorship, Payment and
\* ChildReport tables exactly as they were before the request.
C24_ErrorsChangeNothing ==
    [][last'.out \in C24_Errors
          => /\ users' = users /\ sponsorships' = sponsorships
             /\ payments' = payments /\ reports' = reports
             /\ ~last'.changed]_vars
\* a sponsor who does not sponsor the child was refused on an unread report
C24_RefusedOnUnreadReport ==
    /\ last.op = "mark_report_as_read" /\ last.out = "Forbidden"
    /\ last.principal = SPONSOR
    /\ \E i \in DOMAIN reports : reports[i].status = "unread"

\* C25: in every reachable state the status of every ChildReport row is
\* unread or read, and the latest mark_report_as_read that succeeded left
\* a row with the status read.
\* Stated as claimed; the code violates it.
C25_StatusUnreadOrRead ==
    /\ \A i \in DOMAIN reports : reports[i].status \in {"unread", "read"}
    /\ (last.op = "mark_report_as_read" /\ last.out = "ok")
          => \E i \in DOMAIN reports : reports[i].status = "read"

\* C26: with the duplicate check and the insert of create_sponsorship as
\* separate steps, the insert of a request that passed its check commits and
\* adds its row whatever other requests inserted in between: the store has no
\* uniqueness constraint on the pair that would refuse it.  Two requests for
\* one pair whose checks both precede both inserts therefore leave two rows.
C26_InsertAlwaysCommits ==
    [][\A r \in Pending("create_sponsorship") :
          create_sponsorship_write(r)
              => /\ last'.out = "ok"
                 /\ last'.dSponsorships = 1
                 /\ \E i \in DOMAIN sponsorships' \ DOMAIN sponsorships :
                       /\ sponsorships'[i].sponsor_id = r.data.sponsor_id
                       /\ sponsorships'[i].child_id = r.data.child_id]_vars
\* two rows for one pair, the second insert just committed
C26_TwoRowsForOnePair ==
    /\ last.op = "create_sponsorship" /\ last.out = "ok"
    /\ \E i, j \in DOMAIN sponsorships :
          /\ i # j
          /\ sponsorships[i].sponsor_id = sponsorships[j].sponsor_id
          /\ sponsorships[i].child_id = sponsorships[j].child_id

\* the credentials c and d get the same answer from every handler, over its
\* inputs
C27_SameAnswers(c, d) ==
    /\ read_logged_in_user_outcome(c) = read_logged_in_user_outcome(d)
    /\ \A data \in NewUser : create_user_outcome(c, data) = create_user_outcome(d, data)
    /\ \A user_id \in SeedIds :
          /\ read_user_response(c, user_id) = read_user_response(d, user_id)
          /\ \A n \in SeedIds :
                update_user_outcome(c, user_id, SameUser(SeedUser(n)))
                    = update_user_outcome(d, user_id, SameUser(SeedUser(n)))
          /\ delete_user_outcome(c, user_id) = delete_user_outcome(d, user_id)
          /\ \A page \in Pages :
                get_sponsored_children_response(c, user_id, page, MaxSponsorships)
                    = get_sponsored_children_response(d, user_id, page, MaxSponsorships)
          /\ \A sponsorship \in first_sponsorship(user_id) :
                /\ get_sponsor_of_child_response(c, user_id, sponsorship)
                      = get_sponsor_of_child_response(d, user_id, sponsorship)
                /\ get_child_details_outcome(c, user_id, sponsorship)
                      = get_child_details_outcome(d, user_id, sponsorship)
    /\ \A page \in Pages :
          /\ get_sponsors_children_response(c, page, MaxSponsorships)
                = get_sponsors_children_response(d, page, MaxSponsorships)
          /\ \A query \in {all_sponsors, all_children, all_payments,
                           all_sponsorships, all_child_reports} :
                admin_listing(c, query, page, MaxPageSize)
                    = admin_listing(d, query, page, MaxPageSize)
    /\ get_admin_dashboard_response(c) = get_admin_dashboard_response(d)
    /\ \A data \in SponsorshipsOfTwo :
          create_sponsorship_outcome(c, data) = create_sponsorship_outcome(d, data)
    /\ \A id \in SponsorshipIds :
          /\ update_sponsorship_outcome(c, id) = update_sponsorship_outcome(d, id)
          /\ delete_sponsorship_outcome(c, id) = delete_sponsorship_outcome(d, id)
    /\ \A data \in PaymentsOfTwo :
          create_payment_outcome(c, data) = create_payment_outcome(d, data)
    /\ \A sponsor_id \in OptionalIds, child_id \in OptionalChild :
          /\ get_payments_response(c, sponsor_id, child_id, 1, MaxPayments)
                = get_payments_response(d, sponsor_id, child_id, 1, MaxPayments)
          /\ get_reports_response(c, sponsor_id, child_id, 1, MaxReports)
                = get_reports_response(d, sponsor_id, child_id, 1, MaxReports)
    /\ \A id \in PaymentIds :
          /\ \A data \in PaymentUpdate :
                update_payment_outcome(c, id, data) = update_payment_outcome(d, id, data)
          /\ delete_payment_outcome(c, id) = delete_payment_outcome(d, id)
    /\ \A data \in ChildReportCreate :
          create_child_report_outcome(c, data) = create_child_report_outcome(d, data)
    /\ \A id \in ReportIds :
          /\ update_child_report_outcome(c, id) = update_child_report_outcome(d, id)
          /\ delete_child_report_outcome(c, id) = delete_child_report_outcome(d, id)
          /\ mark_report_as_read_outcome(c, id) = mark_report_as_read_outcome(d, id)

\* C27: the answer of every handler depends on the credential only through
\* its id: a credential is answered as the credential of the same User that
\* carries the role admin is, so credentials for one User that differ in the
\* role are answered alike, a principal whose stored role is not admin is refused by
\* the admin check whatever role its credential carries, and a principal
\* whose stored role is admin passes it.
C27_StoredRoleDecides ==
    /\ \A c \in Credentials :
          c.role \in {SPONSOR, CHILD}
              => C27_SameAnswers(c, [c EXCEPT !.role = ADMIN])
    /\ \A c \in Credentials, user_id \in SeedIds :
          /\ (NonAdmin(c) /\ Exists(users, user_id))
                => delete_user_outcome(c, user_id) = "Forbidden"
          /\ (Admin(c) /\ Exists(users, user_id) /\ c.id # user_id)
                => delete_user_outcome(c, user_id) = "ok"
    /\ (last.op = "delete_user" /\ last.out = "ok") => last.principal = ADMIN
    /\ (last.op = "delete_user" /\ last.principal \in {SPONSOR, CHILD})
          => last.out \in {"Forbidden", "NotFound"}
\* the seeded administrator and the second sponsor are deleted: the last
\* deletion was asked with a credential that carries a role other than admin,
\* by a User whose role had been changed to admin
C27_DeletedByPromotedUser ==
    /\ last.op = "delete_user" /\ last.out = "ok"
    /\ ~Exists(users, 1) /\ ~Exists(users, 3)

\* C28: the seeded database holds an admin-role User, and every state that
\* delete_user and update_user requests lead to holds at least one: a step
\* of either handler that starts with an admin-role User ends with one.
\* Stated as claimed; the code violates it.
C28_AdminRemains ==
    [][(/\ last'.op \in {"delete_user", "update_user"}
        /\ \E i \in DOMAIN users : users[i].role = ADMIN)
          => \E i \in DOMAIN users' : users'[i].role = ADMIN]_vars

\* C29: create_user by an admin with a compliant password, a username that no
\* stored User has and no email succeeds, whether or not stored Users have
\* an email.
\* Stated as claimed; the code violates it.
C29_NoEmailSucceeds ==
    \A c \in Credentials, data \in UserCreate :
        (/\ Admin(c)
         /\ password_pattern(data.password)
         /\ IsNone(data.email)
         /\ \A i \in DOMAIN users : users[i].username # data.username)
            => create_user_outcome(c, data) = "ok"

\* the result sequences of the pages from..to of a query, one after another
RECURSIVE C30_Pages(_, _, _, _)
C30_Pages(query, page_size, from, to) ==
    IF from > to THEN <<>>
    ELSE paginate_query(query, from, page_size).results
             \o C30_Pages(query, page_size, from + 1, to)

\* C30: for every query and page size, the result sequences paginate_query
\* returns for the pages 1..total_pages, one after another, are the query's
\* rows in the query's order, each once; every page before the last holds
\* page_size rows and the last holds at least 1 and at most page_size.
C30_PagesPartitionQuery ==
    last.op = "paginate_query" =>
        LET total_pages == last.pagination.total_pages
            rows(p) == paginate_query(last.query, p, last.page_size).results
        IN /\ C30_Pages(last.query, last.page_size, 1, total_pages) = last.query
           /\ \A p \in 1..(total_pages - 1) : Len(rows(p)) = last.page_size
           /\ total_pages > 0
                 => Len(rows(total_pages)) \in 1..last.page_size
\* the last of several pages was asked for, and it is not full
C30_LastOfSeveralPages ==
    /\ last.op = "paginate_query"
    /\ last.pagination.total_pages > 1
    /\ last.page = last.pagination.total_pages
    /\ last.pagination.results # <<>>
    /\ Len(last.pagination.results) < last.page_size

====
